---- MODULE Spec2Model ----
(***************************************************************************)
(* A model of the deterministic core of the FP&A agent: month coercion and *)
(* FX normalisation (agent/data.py) and the month/range resolver           *)
(* (agent/parser.py).                                                       *)
(*                                                                         *)
(* Text is a sequence of one-character strings, so that len(x), x[4],       *)
(* substring tests and the regular expressions of the source are computed   *)
(* on characters.  A calendar month (pandas Period, freq "M") is a record   *)
(* [y, m]; the missing month pd.NaT is the record NaT.  Amounts and rates   *)
(* are integers (the source uses floats; products of the values drawn here  *)
(* are exact in both).                                                      *)
(***************************************************************************)
EXTENDS Integers, Sequences, FiniteSets, TLC

VARIABLES
    pc,      \* position of the run: which operation has acted
    today,   \* the wall-clock date dateutil takes its default from
    dfs,     \* the four raw row sets handed to normalize
    norm,    \* what normalize returned or raised
    months,  \* what get_available_months returned
    x,       \* the scalar handed to coerce
    period,  \* what coerce returned
    text,    \* the question text handed to parse_months
    am,      \* the available-months sequence handed to parse_months
    sel,     \* what parse_months returned or raised
    ledger,  \* the canonical ledger handed to a metric
    cashdf,  \* the cash rows handed to a metric
    entity,  \* the optional entity handed to a metric
    msel,    \* the month selection handed to a metric
    ebitda,  \* the EBITDA slice handed to cash_runway
    out      \* what the metric returned or raised

metricVars == <<ledger, cashdf, entity, msel, ebitda, out>>

vars == <<pc, today, dfs, norm, months, x, period, text, am, sel, metricVars>>

\* entity: str | None
NoEntity == [given |-> FALSE, name |-> ""]

Entity(n) == [given |-> TRUE, name |-> n]

NoOut == [op |-> "none"]

\* no metric has been called
NoMetrics ==
    /\ ledger = <<>>
    /\ cashdf = <<>>
    /\ entity = NoEntity
    /\ msel = <<>>
    /\ ebitda = <<>>
    /\ out = NoOut

---------------------------------------------------------------------------
(* Characters *)

Digits == {"0","1","2","3","4","5","6","7","8","9"}

LowerLetters == {"a","b","c","d","e","f","g","h","i","j","k","l","m","n","o","p","q","r","s","t","u","v","w","x","y","z"}

UpperToLower ==
    ("A" :> "a") @@ ("B" :> "b") @@ ("C" :> "c") @@ ("D" :> "d") @@ ("E" :> "e") @@
    ("F" :> "f") @@ ("G" :> "g") @@ ("H" :> "h") @@ ("I" :> "i") @@ ("J" :> "j") @@
    ("K" :> "k") @@ ("L" :> "l") @@ ("M" :> "m") @@ ("N" :> "n") @@ ("O" :> "o") @@
    ("P" :> "p") @@ ("Q" :> "q") @@ ("R" :> "r") @@ ("S" :> "s") @@ ("T" :> "t") @@
    ("U" :> "u") @@ ("V" :> "v") @@ ("W" :> "w") @@ ("X" :> "x") @@ ("Y" :> "y") @@
    ("Z" :> "z")

UpperLetters == DOMAIN UpperToLower

Letters == LowerLetters \cup UpperLetters

\* the characters matched by \w (and separating \b from \B)
WordChars == Letters \cup Digits \cup {"_"}

\* the characters matched by \s
Spaces == {" "}

DigitVal ==
    ("0" :> 0) @@ ("1" :> 1) @@ ("2" :> 2) @@ ("3" :> 3) @@ ("4" :> 4) @@
    ("5" :> 5) @@ ("6" :> 6) @@ ("7" :> 7) @@ ("8" :> 8) @@ ("9" :> 9)

DigitChar == <<"0","1","2","3","4","5","6","7","8","9">>

\* str.lower()
lower(s) == [i \in 1..Len(s) |-> IF s[i] \in UpperLetters THEN UpperToLower[s[i]] ELSE s[i]]

\* int() of a string of digits
RECURSIVE NumVal(_)
NumVal(ds) ==
    IF Len(ds) = 0 THEN 0
    ELSE 10 * NumVal(SubSeq(ds, 1, Len(ds) - 1)) + DigitVal[ds[Len(ds)]]

AllDigits(s) == \A i \in 1..Len(s) : s[i] \in Digits

\* str() of a natural number
RECURSIVE Str(_)
Str(n) == IF n < 10 THEN <<DigitChar[n + 1]>> ELSE Str(n \div 10) \o <<DigitChar[(n % 10) + 1]>>

\* the format specs :02d and %m
Pad2(n) == IF n < 10 THEN <<"0">> \o Str(n) ELSE Str(n)

\* the format spec %Y
Pad4(n) ==
    IF n < 10 THEN <<"0","0","0">> \o Str(n)
    ELSE IF n < 100 THEN <<"0","0">> \o Str(n)
    ELSE IF n < 1000 THEN <<"0">> \o Str(n)
    ELSE Str(n)

\* first index at or after i whose character is not in class C
RECURSIVE RunEnd(_, _, _)
RunEnd(s, i, C) == IF i <= Len(s) /\ s[i] \in C THEN RunEnd(s, i + 1, C) ELSE i

\* s[i:i+len(w)] == w
MatchAt(s, i, w) == i + Len(w) - 1 <= Len(s) /\ SubSeq(s, i, i + Len(w) - 1) = w

\* w in s
Contains(s, w) == \E i \in 1..(Len(s) - Len(w) + 1) : MatchAt(s, i, w)

---------------------------------------------------------------------------
(* Calendar months *)

NaT == [y |-> 0, m |-> 0]

Period(year, month) == [y |-> year, m |-> month]

\* the order of Period values (their ordinal)
Ordinal(p) == p.y * 12 + (p.m - 1)

MonthAbbr == <<
    <<"j","a","n">>, <<"f","e","b">>, <<"m","a","r">>, <<"a","p","r">>,
    <<"m","a","y">>, <<"j","u","n">>, <<"j","u","l">>, <<"a","u","g">>,
    <<"s","e","p">>, <<"o","c","t">>, <<"n","o","v">>, <<"d","e","c">> >>

MonthName == <<
    <<"j","a","n","u","a","r","y">>, <<"f","e","b","r","u","a","r","y">>,
    <<"m","a","r","c","h">>, <<"a","p","r","i","l">>, <<"m","a","y">>,
    <<"j","u","n","e">>, <<"j","u","l","y">>, <<"a","u","g","u","s","t">>,
    <<"s","e","p","t","e","m","b","e","r">>, <<"o","c","t","o","b","e","r">>,
    <<"n","o","v","e","m","b","e","r">>, <<"d","e","c","e","m","b","e","r">> >>

Sept == <<"s","e","p","t">>

IsLeap(year) == (year % 4 = 0 /\ year % 100 # 0) \/ year % 400 = 0

DaysIn(year, month) ==
    IF month = 2 THEN (IF IsLeap(year) THEN 29 ELSE 28)
    ELSE IF month \in {4, 6, 9, 11} THEN 30 ELSE 31

---------------------------------------------------------------------------
(* dateutil.parser.parse, as data.py and parser.py call it: no default is   *)
(* passed, so the fields the text does not give are taken from today's      *)
(* date.  The shapes modelled are those of the texts drawn below: a word, a *)
(* 4-digit number, a word and a 4-digit number, and two or three numbers    *)
(* joined by - or /.                                                        *)

ParserError == [ok |-> FALSE, year |-> 0, month |-> 0, day |-> 0]

\* datetime(year, month, day): ValueError when a field is out of range
MkDate(year, month, day) ==
    IF year \in 1..9999 /\ month \in 1..12 /\ day \in 1..DaysIn(year, month)
    THEN [ok |-> TRUE, year |-> year, month |-> month, day |-> day]
    ELSE ParserError

\* the lexer: runs of letters ("a"), runs of digits ("n"), other characters
\* one by one ("s"); whitespace separates and is dropped
RECURSIVE Lex(_, _)
Lex(s, i) ==
    IF i > Len(s) THEN <<>>
    ELSE IF s[i] \in Letters
         THEN LET j == RunEnd(s, i, Letters)
              IN  <<[k |-> "a", s |-> SubSeq(s, i, j - 1)]>> \o Lex(s, j)
    ELSE IF s[i] \in Digits
         THEN LET j == RunEnd(s, i, Digits)
              IN  <<[k |-> "n", s |-> SubSeq(s, i, j - 1)]>> \o Lex(s, j)
    ELSE IF s[i] \in Spaces THEN Lex(s, i + 1)
    ELSE <<[k |-> "s", s |-> <<s[i]>>]>> \o Lex(s, i + 1)

\* the month a word names (a 3-letter abbreviation, "sept" or a full name,
\* in any case), 0 when it names none
MonthIndex(word) ==
    LET w == lower(word)
        hits == {i \in 1..12 : w = MonthAbbr[i] \/ w = MonthName[i] \/ (i = 9 /\ w = Sept)}
    IN  IF hits = {} THEN 0 ELSE CHOOSE i \in hits : TRUE

\* the day of the default date, clamped to the month it lands in
ClampDay(year, month, day) == IF day > DaysIn(year, month) THEN DaysIn(year, month) ELSE day

dtparse(s, now) ==
    LET toks == Lex(s, 1)
        ks == [i \in 1..Len(toks) |-> toks[i].k]
        DateSep(i) == toks[i].s \in {<<"-">>, <<"/">>}
    IN  IF ks = <<"a">> THEN
            \* a bare month name: year and day from today
            LET mo == MonthIndex(toks[1].s)
            IN  IF mo = 0 THEN ParserError
                ELSE MkDate(now.year, mo, ClampDay(now.year, mo, now.day))
        ELSE IF ks = <<"n">> /\ Len(toks[1].s) = 4 THEN
            \* a bare year: month and day from today
            LET yr == NumVal(toks[1].s)
            IN  MkDate(yr, now.month, ClampDay(yr, now.month, now.day))
        ELSE IF ks = <<"a", "n">> /\ Len(toks[2].s) = 4 THEN
            \* month name and year: day from today
            LET mo == MonthIndex(toks[1].s)
                yr == NumVal(toks[2].s)
            IN  IF mo = 0 THEN ParserError
                ELSE MkDate(yr, mo, ClampDay(yr, mo, now.day))
        ELSE IF ks = <<"n", "s", "n">> /\ DateSep(2) THEN
            LET a == NumVal(toks[1].s)
                b == NumVal(toks[3].s)
            IN  IF a > 31 THEN MkDate(a, b, ClampDay(a, b, now.day))
                ELSE IF b > 31 THEN MkDate(b, a, ClampDay(b, a, now.day))
                ELSE MkDate(now.year, a, b)
        ELSE IF ks = <<"n", "s", "n", "s", "n">> /\ DateSep(2) /\ DateSep(4)
                /\ Len(toks[1].s) = 4 THEN
            MkDate(NumVal(toks[1].s), NumVal(toks[3].s), NumVal(toks[5].s))
        ELSE ParserError

\* datetime.strftime("%Y-%m")
strftime(d) == Pad4(d.year) \o <<"-">> \o Pad2(d.month)

\* pd.Period(s, freq="M") for the texts it is given here, "YYYY-MM": NaT
\* stands for the exception it raises on anything else
PdPeriod(s) ==
    IF Len(s) = 7 /\ s[5] = "-" /\ AllDigits(SubSeq(s, 1, 4)) /\ AllDigits(SubSeq(s, 6, 7))
       /\ NumVal(SubSeq(s, 6, 7)) \in 1..12 /\ NumVal(SubSeq(s, 1, 4)) >= 1
    THEN Period(NumVal(SubSeq(s, 1, 4)), NumVal(SubSeq(s, 6, 7)))
    ELSE NaT

---------------------------------------------------------------------------
(* data.py: _to_period *)

\* a scalar of a month column: text, or the missing value (None / NaN)
Txt(s) == [isna |-> FALSE, s |-> s]

Missing == [isna |-> TRUE, s |-> <<>>]

coerce(v, now) ==
    IF v.isna THEN NaT
    ELSE IF Len(v.s) = 7 /\ v.s[5] = "-" THEN PdPeriod(v.s)
    ELSE LET d == dtparse(v.s, now)
         IN  IF d.ok THEN PdPeriod(strftime(d)) ELSE NaT

\* Series.map(coerce) over the month column of a row set
to_period(rows, now) ==
    [i \in 1..Len(rows) |-> [rows[i] EXCEPT !.month = coerce(@, now)]]

---------------------------------------------------------------------------
(* data.py: normalize.  A row set is [columns, rows]: the column names and  *)
(* the rows in file order (the loaders give every frame the default index   *)
(* 0..n-1, so a row's label is its position).  A missing cell of the         *)
(* currency column is the value NA.                                          *)

NA == "<NA>"

\* a record with one more field
WithField(r, f, v) == [g \in DOMAIN r \cup {f} |-> IF g = f THEN v ELSE r[g]]

\* DataFrame[[c1, c2, ...]]
Project(r, cols) == [g \in cols |-> r[g]]

\* d['currency'] = 'USD' when the frame has no such column
DefaultCurrency(d) ==
    IF "currency" \notin d.columns
    THEN [columns |-> d.columns \cup {"currency"},
          rows |-> [i \in 1..Len(d.rows) |-> WithField(d.rows[i], "currency", "USD")]]
    ELSE d

\* the join key of a row; missing values of a key column match each other
Key(r) == <<r.month, r.currency>>

\* validate='m:1': the keys of the right frame are unique
RightKeysUnique(fx) ==
    \A i, j \in 1..Len(fx) : Key(fx[i]) = Key(fx[j]) => i = j

\* the rate cell of a left row after the left join: NaN when no rate matches
NoRate == [isna |-> TRUE, v |-> 0]

Rate(r, fx) ==
    LET hits == {j \in 1..Len(fx) : Key(fx[j]) = Key(r)}
    IN  IF hits = {} THEN NoRate
        ELSE [isna |-> FALSE, v |-> fx[CHOOSE j \in hits : TRUE].rate_to_usd]

\* d.merge(fx, on=['month','currency'], how='left'): the left rows in their
\* order, each with its rate
Merge(rows, fx) == [i \in 1..Len(rows) |-> WithField(rows[i], "rate_to_usd", Rate(rows[i], fx))]

\* DataFrame.drop_duplicates / Series.drop_duplicates: first occurrences
RECURSIVE DropDuplicates(_)
DropDuplicates(s) ==
    IF Len(s) = 0 THEN <<>>
    ELSE LET init == DropDuplicates(SubSeq(s, 1, Len(s) - 1))
             last == s[Len(s)]
         IN  IF \E i \in 1..Len(init) : init[i] = last THEN init ELSE Append(init, last)

IsMissingRate(r) == r.rate_to_usd.isna

\* merged[merged['rate_to_usd'].isna()][['month','currency']].drop_duplicates()
MissingPairs(merged) ==
    LET bad == SelectSeq(merged, IsMissingRate)
    IN  DropDuplicates([i \in 1..Len(bad) |-> Key(bad[i])])

\* FxConvert with the rate left out of amount_usd
FxConvert_unconverted(d, fx) ==
    LET dc == DefaultCurrency(d)
        merged == Merge(dc.rows, fx)
    IN  IF ~RightKeysUnique(fx)
        THEN [ok |-> FALSE, error |-> "MergeError", missing |-> <<>>, rows |-> <<>>]
        ELSE IF \E i \in 1..Len(merged) : merged[i].rate_to_usd.isna
        THEN [ok |-> FALSE, error |-> "ValueError", missing |-> MissingPairs(merged), rows |-> <<>>]
        ELSE [ok |-> TRUE, error |-> "", missing |-> <<>>,
              rows |-> [i \in 1..Len(dc.rows) |->
                          WithField(dc.rows[i], "amount_usd", merged[i].amount)]]

\* one turn of the FX loop over (actuals, budget)
FxConvert(d, fx) ==
    LET dc == DefaultCurrency(d)
        merged == Merge(dc.rows, fx)
    IN  IF ~RightKeysUnique(fx)
        THEN [ok |-> FALSE, error |-> "MergeError", missing |-> <<>>, rows |-> <<>>]
        ELSE IF \E i \in 1..Len(merged) : merged[i].rate_to_usd.isna
        THEN [ok |-> FALSE, error |-> "ValueError", missing |-> MissingPairs(merged), rows |-> <<>>]
        ELSE [ok |-> TRUE, error |-> "", missing |-> <<>>,
              rows |-> [i \in 1..Len(dc.rows) |->
                          WithField(dc.rows[i], "amount_usd",
                                    merged[i].amount * merged[i].rate_to_usd.v)]]

LongColumns == {"month", "entity", "account_category", "amount_usd", "source"}

\* Long with every row tagged as actuals
Long_all_actuals(rows, tag) ==
    [i \in 1..Len(rows) |-> Project(WithField(rows[i], "source", "actuals"), LongColumns)]

\* d.assign(source=tag)[[month, entity, account_category, amount_usd, source]]
Long(rows, tag) ==
    [i \in 1..Len(rows) |-> Project(WithField(rows[i], "source", tag), LongColumns)]

\* cash.rename(columns={'cash_usd': 'amount_usd'})
RenameCash(rows) ==
    [i \in 1..Len(rows) |->
        [g \in (DOMAIN rows[i] \ {"cash_usd"}) \cup {"amount_usd"} |->
            IF g = "amount_usd" THEN rows[i].cash_usd ELSE rows[i][g]]]

Raised(e, missing) ==
    [ok |-> FALSE, error |-> e, missing |-> missing, financials |-> <<>>, cash |-> <<>>]

normalize(in, now) ==
    LET Built(a, b, cash) ==
            IF ~a.ok THEN Raised(a.error, a.missing)
            ELSE IF ~b.ok THEN Raised(b.error, b.missing)
            ELSE [ok |-> TRUE, error |-> "", missing |-> <<>>,
                  financials |-> Long(a.rows, "actuals") \o Long(b.rows, "budget"),
                  cash |-> RenameCash(cash)]
        Loop(actuals, budget, fx, cash) ==
            Built(FxConvert(actuals, fx), FxConvert(budget, fx), cash)
    IN  Loop([in.actuals EXCEPT !.rows = to_period(@, now)],
             [in.budget EXCEPT !.rows = to_period(@, now)],
             to_period(in.fx, now),
             to_period(in.cash, now))

\* the working frame bound to the caller's frame itself, no copy taken
copy_alias(d) == [own |-> FALSE, data |-> d]

\* DataFrame.copy(): a deep copy, with storage of its own
copy(d) == [own |-> TRUE, data |-> d]

\* the caller's frame after the in-place writes made through the working
\* frame w, which then holds written
Left(orig, w, written) == IF w.own THEN orig ELSE written

\* the four input frames after normalize has run or raised: d['month'] is
\* written on all four before the FX loop, d['currency'] and d['amount_usd']
\* on actuals and then budget, as far as the loop gets
InputsAfterNormalize(in, now) ==
    LET Written(d, r) ==
            IF r.ok THEN [columns |-> DefaultCurrency(d).columns \cup {"amount_usd"}, rows |-> r.rows]
            ELSE DefaultCurrency(d)
        Loop(actuals, budget, fx, cash, a) ==
            [actuals |-> Left(in.actuals, copy(in.actuals), Written(actuals, a)),
             budget |-> Left(in.budget, copy(in.budget),
                             IF a.ok THEN Written(budget, FxConvert(budget, fx)) ELSE budget),
             fx |-> Left(in.fx, copy(in.fx), fx),
             cash |-> Left(in.cash, copy(in.cash), cash)]
        Months(actuals, budget, fx, cash) ==
            Loop(actuals, budget, fx, cash, FxConvert(actuals, fx))
    IN  Months([in.actuals EXCEPT !.rows = to_period(@, now)],
               [in.budget EXCEPT !.rows = to_period(@, now)],
               to_period(in.fx, now),
               to_period(in.cash, now))

---------------------------------------------------------------------------
(* data.py: get_available_months *)

IsNotNaT(p) == p # NaT

\* Series.dropna()
DropNa(s) == SelectSeq(s, IsNotNaT)

\* Series.sort_values() of months: ascending, equal values in their order
RECURSIVE SortValues(_)
SortValues(s) ==
    IF Len(s) <= 1 THEN s
    ELSE LET init == SortValues(SubSeq(s, 1, Len(s) - 1))
             last == s[Len(s)]
             k == Cardinality({i \in 1..Len(init) : Ordinal(init[i]) <= Ordinal(last)})
         IN  SubSeq(init, 1, k) \o <<last>> \o SubSeq(init, k + 1, Len(init))

\* get_available_months without the final sort
get_available_months_unsorted(fin) ==
    DropDuplicates(DropNa([i \in 1..Len(fin) |-> fin[i].month]))

get_available_months(fin) ==
    SortValues(DropDuplicates(DropNa([i \in 1..Len(fin) |-> fin[i].month])))

---------------------------------------------------------------------------
(* The raw row sets the loaders hand to normalize *)

MaxActuals == 2
MaxBudget == 1
MaxFx == 3

SeqsUpTo(S, n) == UNION {[1..k -> S] : k \in 0..n}

T_2025_06 == <<"2","0","2","5","-","0","6">>
T_2025_07 == <<"2","0","2","5","-","0","7">>
T_Jul_2025 == <<"J","u","l"," ","2","0","2","5">>

LedgerColumns == {"month", "entity", "account_category", "amount"}

LedgerRow(mo, ent, cat, amt, cur) ==
    [month |-> mo, entity |-> ent, account_category |-> cat, amount |-> amt, currency |-> cur]

\* rows of a ledger sheet that has a currency column
LedgerRows == {
    LedgerRow(Txt(T_2025_06), "ParentCo", "Revenue", 100, "USD"),
    LedgerRow(Txt(T_Jul_2025), "EMEA", "COGS", 250, "EUR"),
    LedgerRow(Missing, "ParentCo", "Opex:Marketing", 40, "USD"),
    LedgerRow(Txt(T_2025_06), "EMEA", "Revenue", 250, NA) }

\* rows of a ledger sheet that has none
PlainRows == {
    Project(LedgerRow(Txt(T_2025_06), "ParentCo", "Revenue", 100, "USD"), LedgerColumns),
    Project(LedgerRow(Missing, "EMEA", "COGS", 40, "USD"), LedgerColumns) }

LedgerTables(n) ==
    {[columns |-> LedgerColumns \cup {"currency"}, rows |-> r] : r \in SeqsUpTo(LedgerRows, n)}
    \cup {[columns |-> LedgerColumns, rows |-> r] : r \in SeqsUpTo(PlainRows, n)}

FxRow(mo, cur, rate) == [month |-> mo, currency |-> cur, rate_to_usd |-> rate]

\* the rows of the FX sheet, in the order the sheets drawn list them
FxRows == <<
    FxRow(Txt(T_2025_06), "USD", 1),
    FxRow(Txt(T_2025_07), "EUR", 3),
    FxRow(Missing, "USD", 1) >>

\* the FX frame is only looked up by key, so one row order is drawn for
\* each multiset of rows
FxTables ==
    {[i \in 1..Len(ix) |-> FxRows[ix[i]]] :
        ix \in {s \in SeqsUpTo(1..Len(FxRows), MaxFx) :
                    \A i \in 1..(Len(s) - 1) : s[i] <= s[i + 1]}}

CashRow(mo, ent, amt) == [month |-> mo, entity |-> ent, cash_usd |-> amt]

CashTables == {
    <<CashRow(Txt(T_2025_06), "Consolidated", 900)>>,
    <<CashRow(Txt(T_Jul_2025), "Consolidated", 700), CashRow(Txt(T_2025_06), "Consolidated", 900)>> }

Inputs ==
    [actuals : LedgerTables(MaxActuals), budget : LedgerTables(MaxBudget),
     fx : FxTables, cash : CashTables]

Clock == [year |-> 2026, month |-> 11, day |-> 30]

NoInputs == [actuals |-> [columns |-> {}, rows |-> <<>>], budget |-> [columns |-> {}, rows |-> <<>>],
             fx |-> <<>>, cash |-> <<>>]

NoNorm == Raised("", <<>>)

NoSel == [kind |-> "none", rule |-> 0, months |-> <<>>]

---------------------------------------------------------------------------
(* Load, normalize, list the available months *)

Init ==
    /\ NoMetrics
    /\ pc = "loaded"
    /\ today = Clock
    /\ dfs \in Inputs
    /\ norm = NoNorm
    /\ months = <<>>
    /\ x = Missing
    /\ period = NaT
    /\ text = Missing
    /\ am = <<>>
    /\ sel = NoSel

Normalize ==
    /\ pc = "loaded"
    /\ norm' = normalize(dfs, today)
    /\ dfs' = InputsAfterNormalize(dfs, today)
    /\ pc' = IF norm'.ok THEN "normalized" ELSE "failed"
    /\ UNCHANGED <<today, months, x, period, text, am, sel, metricVars>>

GetAvailableMonths ==
    /\ pc = "normalized"
    /\ months' = get_available_months(norm.financials)
    /\ pc' = "months"
    /\ UNCHANGED <<today, dfs, norm, x, period, text, am, sel, metricVars>>

Next == Normalize \/ GetAvailableMonths

Spec == Init /\ [][Next]_vars

---------------------------------------------------------------------------
(* What the claims speak of: the input rows as normalize sees them *)

Done == pc \in {"normalized", "failed", "months"}

\* the months coerced; a row of a sheet without currency column has none
SeenRows(d) == to_period(d.rows, today)

SeenFx == to_period(dfs.fx, today)

\* the currency a row states, "USD" for a sheet without currency column
OwnCurrency(d, i) == IF "currency" \in d.columns THEN d.rows[i].currency ELSE "USD"

OwnPair(d, i) == <<SeenRows(d)[i].month, OwnCurrency(d, i)>>

RatesFor(pair) == {j \in 1..Len(SeenFx) : <<SeenFx[j].month, SeenFx[j].currency>> = pair}

\* every pair occurring in actuals and budget has exactly one FX rate
Covered ==
    \A d \in {dfs.actuals, dfs.budget} : \A i \in 1..Len(d.rows) :
        Cardinality(RatesFor(OwnPair(d, i))) = 1

\* row i of sheet d, found at position off + i of the canonical ledger,
\* carries its own amount times the rate of its own pair
RowConverted(d, i, off, pair) ==
    /\ Cardinality(RatesFor(pair)) = 1
    /\ norm.financials[off + i].amount_usd
         = d.rows[i].amount * SeenFx[CHOOSE j \in RatesFor(pair) : TRUE].rate_to_usd

AllConverted ==
    /\ norm.ok
    /\ Len(norm.financials) = Len(dfs.actuals.rows) + Len(dfs.budget.rows)
    /\ \A i \in 1..Len(dfs.actuals.rows) : RowConverted(dfs.actuals, i, 0, OwnPair(dfs.actuals, i))
    /\ \A i \in 1..Len(dfs.budget.rows) :
          RowConverted(dfs.budget, i, Len(dfs.actuals.rows), OwnPair(dfs.budget, i))

FxKeysUnique ==
    \A i, j \in 1..Len(SeenFx) :
        (SeenFx[i].month = SeenFx[j].month /\ SeenFx[i].currency = SeenFx[j].currency) => i = j

AllMonthsParsed ==
    \A d \in {dfs.actuals, dfs.budget} : \A i \in 1..Len(d.rows) : SeenRows(d)[i].month # NaT

HasUnspecifiedCell ==
    \E d \in {dfs.actuals, dfs.budget} : \E i \in 1..Len(d.rows) : OwnCurrency(d, i) = NA

\* C1 as stated: when every (month, currency) pair occurring in actuals and
\* budget has exactly one FX rate, normalize succeeds and every row carries
\* amount * rate of its own pair.
C1_CoveredRowsConverted ==
    (Done /\ Covered /\ Len(dfs.actuals.rows) > 0 /\ AllMonthsParsed
      /\ \A j \in 1..Len(SeenFx) : SeenFx[j].month # NaT)
    => AllConverted

\* C1 as amended: the same, when moreover no two rows of the FX sheet share
\* a (month, currency) key (also a key no ledger row uses).
C1_CoveredUniqueRowsConverted == (Done /\ Covered /\ FxKeysUnique) => AllConverted

\* two rows of one sheet converted at different rates
C1_Witness ==
    /\ pc = "normalized"
    /\ Covered /\ FxKeysUnique
    /\ Len(dfs.actuals.rows) = 2
    /\ norm.financials[1].amount_usd = dfs.actuals.rows[1].amount
    /\ norm.financials[2].amount_usd = 3 * dfs.actuals.rows[2].amount

\* the pairs of both ledger sheets that have no rate
AllMissingPairs ==
    {OwnPair(d, i) : d \in {dfs.actuals}, i \in {k \in 1..Len(dfs.actuals.rows) :
                                                  RatesFor(OwnPair(dfs.actuals, k)) = {}}}
    \cup {OwnPair(d, i) : d \in {dfs.budget}, i \in {k \in 1..Len(dfs.budget.rows) :
                                                   RatesFor(OwnPair(dfs.budget, k)) = {}}}

Range(q) == {q[i] : i \in 1..Len(q)}

\* C2: when some pair of the ledger has no rate, normalize fails and its
\* error names every distinct pair without a rate, those of the actuals rows
\* and those of the budget rows.
C2_ErrorNamesEveryMissingPair ==
    (Done /\ FxKeysUnique /\ AllMonthsParsed /\ ~HasUnspecifiedCell /\ AllMissingPairs # {}) =>
        (~norm.ok /\ norm.error = "ValueError" /\ Range(norm.missing) = AllMissingPairs)

\* the currency of a row with unspecified currency read as USD
UsdPair(d, i) ==
    <<SeenRows(d)[i].month, IF OwnCurrency(d, i) = NA THEN "USD" ELSE OwnCurrency(d, i)>>

\* C3: a row whose currency is unspecified is converted as a USD row, when
\* the sheet has no currency column and when the row's currency cell is
\* empty.
C3_UnspecifiedCurrencyIsUSD ==
    (Done /\ FxKeysUnique
      /\ \A d \in {dfs.actuals, dfs.budget} : \A i \in 1..Len(d.rows) :
            Cardinality(RatesFor(UsdPair(d, i))) = 1)
    => /\ norm.ok
       /\ \A i \in 1..Len(dfs.actuals.rows) : RowConverted(dfs.actuals, i, 0, UsdPair(dfs.actuals, i))
       /\ \A i \in 1..Len(dfs.budget.rows) :
             RowConverted(dfs.budget, i, Len(dfs.actuals.rows), UsdPair(dfs.budget, i))

\* the months of the canonical ledger
LedgerMonths == {norm.financials[i].month : i \in 1..Len(norm.financials)}

StrictlyAscending(q) == \A i \in 1..(Len(q) - 1) : Ordinal(q[i]) < Ordinal(q[i + 1])

\* C5: get_available_months returns exactly the distinct non-missing months
\* of the canonical ledger, each once, in strictly ascending order.
C5_AvailableMonthsDistinctSorted ==
    pc = "months" => (StrictlyAscending(months) /\ Range(months) = LedgerMonths \ {NaT})

\* a ledger with a later month before an earlier one and a missing month
C5_Witness ==
    /\ pc = "months"
    /\ Len(months) = 2
    /\ NaT \in LedgerMonths
    /\ Ordinal(norm.financials[1].month) > Ordinal(norm.financials[2].month)

\* row i of a ledger sheet and the canonical row made of it
SameLedgerRow(raw, seen, long, tag) ==
    /\ DOMAIN long = {"month", "entity", "account_category", "amount_usd", "source"}
    /\ long.source = tag
    /\ long.month = seen.month
    /\ long.entity = raw.entity
    /\ long.account_category = raw.account_category

\* C6: the canonical ledger has one row per actuals row followed by one row
\* per budget row, tagged by source, with exactly the columns month, entity,
\* account_category, amount_usd, source; the cash rows keep their amounts
\* under the name amount_usd.
C6_LedgerShape ==
    (Done /\ norm.ok) =>
        LET na == Len(dfs.actuals.rows)
            nb == Len(dfs.budget.rows)
            seenCash == to_period(dfs.cash, today)
        IN  /\ Len(norm.financials) = na + nb
            /\ \A i \in 1..na :
                  SameLedgerRow(dfs.actuals.rows[i], SeenRows(dfs.actuals)[i],
                                norm.financials[i], "actuals")
            /\ \A i \in 1..nb :
                  SameLedgerRow(dfs.budget.rows[i], SeenRows(dfs.budget)[i],
                                norm.financials[na + i], "budget")
            /\ Len(norm.cash) = Len(dfs.cash)
            /\ \A i \in 1..Len(dfs.cash) :
                  /\ DOMAIN norm.cash[i] = {"month", "entity", "amount_usd"}
                  /\ norm.cash[i].amount_usd = dfs.cash[i].cash_usd
                  /\ norm.cash[i].entity = dfs.cash[i].entity
                  /\ norm.cash[i].month = seenCash[i].month

\* actuals and budget rows in one ledger, two cash rows
C6_Witness ==
    /\ pc = "normalized"
    /\ Len(dfs.actuals.rows) = 2
    /\ Len(dfs.budget.rows) = 1
    /\ Len(norm.financials) = 3
    /\ Len(norm.cash) = 2

---------------------------------------------------------------------------
(* Coercing one scalar of a month column *)

T_2025_13 == <<"2","0","2","5","-","1","3">>
T_2025_00 == <<"2","0","2","5","-","0","0">>
T_2025s06 == <<"2","0","2","5","/","0","6">>
T_2025_06_15 == <<"2","0","2","5","-","0","6","-","1","5">>
T_2024_02_30 == <<"2","0","2","4","-","0","2","-","3","0">>
T_Jun_2025 == <<"J","u","n"," ","2","0","2","5">>
T_June == <<"J","u","n","e">>
T_feb == <<"f","e","b">>
T_2025 == <<"2","0","2","5">>
T_na == <<"n","/","a">>
T_2025_7 == <<"2","0","2","5","-","7">>
T_12_2024 == <<"1","2","-","2","0","2","4">>
T_Marketing_2025 == <<"M","a","r","k","e","t","i","n","g"," ","2","0","2","5">>

Scalars == {Missing} \cup {Txt(s) : s \in {
    <<>>, T_2025_06, T_2025_07, T_2025_13, T_2025_00, T_2025s06, T_2025_06_15,
    T_2024_02_30, T_Jul_2025, T_Jun_2025, T_June, T_feb, T_2025, T_na, T_2025_7,
    T_12_2024, T_Marketing_2025}}

Todays == {[year |-> yr, month |-> mo, day |-> dy] : yr \in {2025, 2026}, mo \in {1, 11}, dy \in {1, 30}}

InitCoerce ==
    /\ NoMetrics
    /\ pc = "scalar"
    /\ today \in Todays
    /\ x \in Scalars
    /\ period = NaT
    /\ dfs = NoInputs
    /\ norm = NoNorm
    /\ months = <<>>
    /\ text = Missing
    /\ am = <<>>
    /\ sel = NoSel

Coerce ==
    /\ pc = "scalar"
    /\ period' = coerce(x, today)
    /\ pc' = "coerced"
    /\ UNCHANGED <<today, dfs, norm, months, x, text, am, sel, metricVars>>

NextCoerce == Coerce

SpecCoerce == InitCoerce /\ [][NextCoerce]_vars

\* the text is one word that names a month, and nothing else
IsBareMonthName(s) == Len(s) > 0 /\ (\A i \in 1..Len(s) : s[i] \in Letters) /\ MonthIndex(s) # 0

\* the text is one 4-digit number, and nothing else
IsBareYear(s) == Len(s) = 4 /\ AllDigits(s)

\* the text has the 7-character shape YYYY-MM and MM is no month
IsInvalidYearMonth(s) ==
    /\ Len(s) = 7 /\ s[5] = "-" /\ AllDigits(SubSeq(s, 1, 4)) /\ AllDigits(SubSeq(s, 6, 7))
    /\ NumVal(SubSeq(s, 6, 7)) \notin 1..12

\* C4: coercion never invents a month: a text that lacks a year or a month
\* (a bare month name, a bare year) and a YYYY-MM text with an invalid month
\* give the absent value NaT.
C4_NoInventedMonth ==
    (pc = "coerced" /\ ~x.isna
      /\ (IsBareMonthName(x.s) \/ IsBareYear(x.s) \/ IsInvalidYearMonth(x.s)))
    => period = NaT

---------------------------------------------------------------------------
(* parser.py: parse_months.  The result is a Series of months, None, or an  *)
(* exception; rule is the number of the rule that returned or raised        *)
(* (0 for the final return None).                                           *)

Series(rule, ms) == [kind |-> "series", rule |-> rule, months |-> ms]

Raise(rule) == [kind |-> "raise", rule |-> rule, months |-> <<>>]

\* text or ""
OrEmpty(q) == IF q.isna THEN <<>> ELSE q.s

\* the least element of a non-empty set of positions: re.search returns the
\* leftmost match
First(S) == CHOOSE i \in S : \A j \in S : i <= j

W_last == <<"l","a","s","t">>
W_month == <<"m","o","n","t","h">>
W_this_month == <<"t","h","i","s"," ","m","o","n","t","h">>
W_current_month == <<"c","u","r","r","e","n","t"," ","m","o","n","t","h">>
W_right_now == <<"r","i","g","h","t"," ","n","o","w">>

\* r"last\s+(\d+)\s+months?" matched at position i
LastAt(t, i) ==
    /\ MatchAt(t, i, W_last)
    /\ LET b == i + 4
           c == RunEnd(t, b, Spaces)
           d == RunEnd(t, c, Digits)
           e == RunEnd(t, d, Spaces)
       IN  c > b /\ d > c /\ e > d /\ MatchAt(t, e, W_month)

LastPositions(t) == {i \in 1..Len(t) : LastAt(t, i)}

\* int(m.group(1))
LastN(t) ==
    LET i == First(LastPositions(t))
        c == RunEnd(t, i + 4, Spaces)
    IN  NumVal(SubSeq(t, c, RunEnd(t, c, Digits) - 1))

\* Series.tail(n)
tail(q, n) == IF n >= Len(q) THEN q ELSE SubSeq(q, Len(q) - n + 1, Len(q))

\* r"q([1-4])\s*(\d{4})" matched at position i
QuarterAt(t, i) ==
    /\ t[i] = "q"
    /\ i + 1 <= Len(t)
    /\ t[i + 1] \in {"1", "2", "3", "4"}
    /\ LET c == RunEnd(t, i + 2, Spaces)
       IN  c + 3 <= Len(t) /\ AllDigits(SubSeq(t, c, c + 3))

QuarterPositions(t) == {i \in 1..Len(t) : QuarterAt(t, i)}

\* the quarter rule with the months cut down to the available ones
Quarter_only_available(t, a) ==
    LET i == First(QuarterPositions(t))
        q == DigitVal[t[i + 1]]
        c == RunEnd(t, i + 2, Spaces)
        y == NumVal(SubSeq(t, c, c + 3))
        start == (q - 1) * 3 + 1
        ms == [k \in 1..3 |-> PdPeriod(Str(y) \o <<"-">> \o Pad2(start + k - 1))]
        InData(p) == \E j \in 1..Len(a) : a[j] = p
    IN  IF \E k \in 1..3 : ms[k] = NaT THEN Raise(2) ELSE Series(2, SelectSeq(ms, InData))

\* the quarter rule: the three months of quarter q of year y
Quarter(t, a) ==
    LET i == First(QuarterPositions(t))
        q == DigitVal[t[i + 1]]
        c == RunEnd(t, i + 2, Spaces)
        y == NumVal(SubSeq(t, c, c + 3))
        start == (q - 1) * 3 + 1
        ms == [k \in 1..3 |-> PdPeriod(Str(y) \o <<"-">> \o Pad2(start + k - 1))]
    IN  IF \E k \in 1..3 : ms[k] = NaT THEN Raise(2) ELSE Series(2, ms)

\* MONTH_RX matched at position i of the text as written (re.I):
\* \b, a month abbreviation and the letters after it, \s+, \d{4}, \b
MonthYearAt(s, i) ==
    /\ i + 2 <= Len(s)
    /\ \E k \in 1..12 : lower(SubSeq(s, i, i + 2)) = MonthAbbr[k]
    /\ (i = 1 \/ s[i - 1] \notin WordChars)
    /\ LET e == RunEnd(s, i + 3, Letters)
           c == RunEnd(s, e, Spaces)
       IN  /\ c > e
           /\ c + 3 <= Len(s)
           /\ AllDigits(SubSeq(s, c, c + 3))
           /\ (c + 4 > Len(s) \/ s[c + 4] \notin WordChars)

MonthYearPositions(s) == {i \in 1..Len(s) : MonthYearAt(s, i)}

\* mm.group(0)
MonthYearGroup(s) ==
    LET i == First(MonthYearPositions(s))
        c == RunEnd(s, RunEnd(s, i + 3, Letters), Spaces)
    IN  SubSeq(s, i, c + 3)

\* the named month + year rule
NamedMonthYear(s, now) ==
    LET d == dtparse(MonthYearGroup(s), now)
    IN  IF ~d.ok \/ PdPeriod(strftime(d)) = NaT THEN Raise(3)
        ELSE Series(3, <<PdPeriod(strftime(d))>>)

\* r"(20\d{2})[-/](0[1-9]|1[0-2])" matched at position i
IsoAt(t, i) ==
    /\ i + 6 <= Len(t)
    /\ t[i] = "2" /\ t[i + 1] = "0" /\ t[i + 2] \in Digits /\ t[i + 3] \in Digits
    /\ t[i + 4] \in {"-", "/"}
    /\ \/ t[i + 5] = "0" /\ t[i + 6] \in Digits \ {"0"}
       \/ t[i + 5] = "1" /\ t[i + 6] \in {"0", "1", "2"}

IsoPositions(t) == {i \in 1..Len(t) : IsoAt(t, i)}

\* the ISO rule
IsoMonth(t) ==
    LET i == First(IsoPositions(t))
        y == NumVal(SubSeq(t, i, i + 3))
        p == PdPeriod(Str(y) \o <<"-">> \o SubSeq(t, i + 5, i + 6))
    IN  IF p = NaT THEN Raise(4) ELSE Series(4, <<p>>)

\* name.lower() in t or name[:3].lower() in t
NameIn(t, k) == Contains(t, MonthName[k]) \/ Contains(t, MonthAbbr[k])

\* am[am.dt.month == k]
Candidates(a, k) == SelectSeq(a, LAMBDA p : p.m = k)

\* Series.max() of months; NaT for an empty Series
Max(q) ==
    IF Len(q) = 0 THEN NaT
    ELSE q[CHOOSE i \in 1..Len(q) : \A j \in 1..Len(q) : Ordinal(q[j]) <= Ordinal(q[i])]

\* the month numbers, in calendar order, whose name is in the text and
\* which have an available month
NamedWithData(t, a) == {k \in 1..12 : NameIn(t, k) /\ Len(Candidates(a, k)) > 0}

\* the lone month name rule with the month placed in the year 2025
LoneMonthName_fixed_year(t, a) == Series(5, <<Period(2025, First(NamedWithData(t, a)))>>)

\* the lone month name rule: the loop returns at the first such month
LoneMonthName(t, a) == Series(5, <<Max(Candidates(a, First(NamedWithData(t, a))))>>)

ThisMonthIn(t) ==
    Contains(t, W_this_month) \/ Contains(t, W_current_month) \/ Contains(t, W_right_now)

\* the last N months rule taking the head of the sequence
LastNMonths_head(t, a) ==
    Series(1, SubSeq(a, 1, IF LastN(t) >= Len(a) THEN Len(a) ELSE LastN(t)))

\* the last N months rule
LastNMonths(t, a) == Series(1, tail(a, LastN(t)))

\* parse_months with the lone month name tried before the quarter
parse_months_name_first(q, available_months, now) ==
    LET s == OrEmpty(q)
        t == lower(s)
        a == SortValues(available_months)
    IN  IF LastPositions(t) # {} THEN LastNMonths(t, a)
        ELSE IF NamedWithData(t, a) # {} THEN LoneMonthName(t, a)
        ELSE IF QuarterPositions(t) # {} THEN Quarter(t, a)
        ELSE IF MonthYearPositions(s) # {} THEN NamedMonthYear(s, now)
        ELSE IF IsoPositions(t) # {} THEN IsoMonth(t)
        ELSE IF ThisMonthIn(t) THEN Series(6, <<Max(a)>>)
        ELSE NoSel

\* parse_months answering the latest available month when no rule decides
parse_months_default_latest(q, available_months, now) ==
    LET s == OrEmpty(q)
        t == lower(s)
        a == SortValues(available_months)
    IN  IF LastPositions(t) # {} THEN LastNMonths(t, a)
        ELSE IF QuarterPositions(t) # {} THEN Quarter(t, a)
        ELSE IF MonthYearPositions(s) # {} THEN NamedMonthYear(s, now)
        ELSE IF IsoPositions(t) # {} THEN IsoMonth(t)
        ELSE IF NamedWithData(t, a) # {} THEN LoneMonthName(t, a)
        ELSE Series(6, <<Max(a)>>)

parse_months(q, available_months, now) ==
    LET s == OrEmpty(q)
        t == lower(s)
        a == SortValues(available_months)
    IN  IF LastPositions(t) # {} THEN LastNMonths(t, a)
        ELSE IF QuarterPositions(t) # {} THEN Quarter(t, a)
        ELSE IF MonthYearPositions(s) # {} THEN NamedMonthYear(s, now)
        ELSE IF IsoPositions(t) # {} THEN IsoMonth(t)
        ELSE IF NamedWithData(t, a) # {} THEN LoneMonthName(t, a)
        ELSE IF ThisMonthIn(t) THEN Series(6, <<Max(a)>>)
        ELSE NoSel

---------------------------------------------------------------------------
(* Asking a question against the available months *)

MaxPhrases == 2

Phrases == {
    <<"l","a","s","t"," ","3"," ","m","o","n","t","h","s">>,
    <<"l","a","s","t"," ","1","2"," ","m","o","n","t","h","s">>,
    <<"Q","2"," ","2","0","2","5">>,
    <<"q","4"," ","2","0","2","4">>,
    <<"J","u","n","e"," ","2","0","2","5">>,
    <<"M","a","r","k","e","t","i","n","g"," ","2","0","2","5">>,
    <<"2","0","2","5","-","0","6">>,
    <<"2","0","2","5","/","0","5">>,
    <<"j","u","n","e">>,
    <<"m","a","r","k","e","t","i","n","g">>,
    <<"t","h","i","s"," ","m","o","n","t","h">>,
    <<"r","e","v","e","n","u","e">> }

\* " ".join(phrases)
RECURSIVE Join(_)
Join(ps) ==
    IF Len(ps) = 0 THEN <<>>
    ELSE IF Len(ps) = 1 THEN ps[1]
    ELSE ps[1] \o <<" ">> \o Join(SubSeq(ps, 2, Len(ps)))

Questions == {Missing} \cup {Txt(Join(ps)) : ps \in SeqsUpTo(Phrases, MaxPhrases)}

MonthUniverse == {Period(2024, 6), Period(2025, 3), Period(2025, 5), Period(2025, 6)}

\* what get_available_months can return: distinct months, ascending
AvailableSeqs ==
    {get_available_months([i \in 1..Len(q) |-> [month |-> q[i]]]) :
        q \in {r \in SeqsUpTo(MonthUniverse, Cardinality(MonthUniverse)) :
                  \A i, j \in 1..Len(r) : i < j => Ordinal(r[i]) < Ordinal(r[j])}}

InitParse ==
    /\ NoMetrics
    /\ pc = "asked"
    /\ today = Clock
    /\ text \in Questions
    /\ am \in AvailableSeqs
    /\ sel = NoSel
    /\ dfs = NoInputs
    /\ norm = NoNorm
    /\ months = <<>>
    /\ x = Missing
    /\ period = NaT

ParseMonths ==
    /\ pc = "asked"
    /\ sel' = parse_months(text, am, today)
    /\ pc' = "parsed"
    /\ UNCHANGED <<today, dfs, norm, months, x, period, text, am, metricVars>>

NextParse == ParseMonths

SpecParse == InitParse /\ [][NextParse]_vars

---------------------------------------------------------------------------
(* Properties of parse_months *)

Parsed == pc = "parsed"

Returned == Parsed /\ sel.kind = "series"

Asked == lower(OrEmpty(text))

InAvailable(p) == \E j \in 1..Len(am) : am[j] = p

AllAvailable == \A i \in 1..Len(sel.months) : sel.months[i] # NaT /\ InAvailable(sel.months[i])

\* C7 as stated: every returned month set is ascending, has no duplicates,
\* contains no missing month and is a subset of the available months (here
\* for the case that some month is available).
C7_ReturnedSubsetOfAvailable ==
    Returned /\ Len(am) > 0 => StrictlyAscending(sel.months) /\ AllAvailable

\* C7: every returned month set is strictly ascending (so without
\* duplicates).  It is a set of available months, none missing, when the
\* last-N, lone month name or this/current month rule returned it and some
\* month is available; this/current month with no available month returns
\* one missing month; the quarter, named month + year and ISO rules return
\* non-missing months that need not be available.
C7_ReturnedMonthSets ==
    Returned =>
        /\ StrictlyAscending(sel.months)
        /\ sel.rule \in {1, 5} => AllAvailable
        /\ sel.rule = 6 => IF Len(am) = 0 THEN sel.months = <<NaT>> ELSE AllAvailable
        /\ sel.rule \in {2, 3, 4} => \A i \in 1..Len(sel.months) : sel.months[i] # NaT

C7_Witness ==
    /\ Returned
    /\ sel.rule = 5
    /\ Len(am) >= 3
    /\ sel.months[1] # am[Len(am)]

\* whether the pattern of rule k occurs in the text
Occurs(k) ==
    CASE k = 1 -> LastPositions(Asked) # {}
      [] k = 2 -> QuarterPositions(Asked) # {}
      [] k = 3 -> MonthYearPositions(OrEmpty(text)) # {}
      [] k = 4 -> IsoPositions(Asked) # {}
      [] k = 5 -> \E n \in 1..12 : NameIn(Asked, n)
      [] k = 6 -> ThisMonthIn(Asked)

\* whether rule k can decide: its pattern occurs and, for a lone month
\* name, some available month has that month number
Decides(k) == IF k = 5 THEN NamedWithData(Asked, am) # {} ELSE Occurs(k)

\* the first rule, in the fixed order, satisfying P; 0 when none does
FirstRule(P(_)) ==
    IF \E k \in 1..6 : P(k) THEN First({k \in 1..6 : P(k)}) ELSE 0

QuarterBeatsName ==
    Occurs(2) /\ Occurs(5) /\ ~Occurs(1) =>
        sel.rule = 2 /\ sel.kind = "series" /\ Len(sel.months) = 3

\* C8 as stated: the first rule, in the fixed order, whose pattern occurs in
\* the text decides the result, wherever the patterns stand in the text; a
\* text with a quarter and a lone month name resolves to the quarter (here
\* for the case that some month is available and a month set is returned).
C8_FirstOccurringRuleDecides ==
    Returned /\ Len(am) > 0 => sel.rule = FirstRule(Occurs) /\ QuarterBeatsName

\* C8: the rules are tried in the fixed order wherever the patterns stand in
\* the text, and the first one that can decide gives the result; a lone
\* month name whose month number no available month has does not decide and
\* the this/current month rule is tried after it.  A text with a quarter and
\* a lone month name resolves to the quarter.
C8_FirstDecidingRuleDecides ==
    Parsed => sel.rule = FirstRule(Decides) /\ QuarterBeatsName

C8_Witness ==
    /\ Parsed
    /\ ~Occurs(1)
    /\ QuarterPositions(Asked) # {}
    /\ NamedWithData(Asked, am) # {}
    /\ \E i \in 1..Len(Asked) :
          /\ Contains(SubSeq(Asked, 1, i), MonthName[6])
          /\ First(QuarterPositions(Asked)) > i
    /\ sel.rule = 2

Min(a, b) == IF a <= b THEN a ELSE b

\* C9: for a text with "last N months" the result is exactly the final
\* min(N, count) available months in ascending order: the last 3 for N = 3
\* and at least 3 available months, all of them for N above their number.
C9_LastNIsTail ==
    Parsed /\ Occurs(1) =>
        LET n == LastN(Asked)
            k == Min(n, Len(am))
        IN  /\ sel.kind = "series"
            /\ Len(sel.months) = k
            /\ \A i \in 1..k : sel.months[i] = am[Len(am) - k + i]
            /\ StrictlyAscending(sel.months)
            /\ n = 3 /\ Len(am) >= 3 =>
                   sel.months = <<am[Len(am) - 2], am[Len(am) - 1], am[Len(am)]>>
            /\ n > Len(am) => sel.months = am

C9_Witness ==
    /\ Parsed
    /\ Occurs(1)
    /\ LastN(Asked) = 3
    /\ Len(am) = 4
    /\ Len(sel.months) = 3

\* C10: when the quarter rule is reached with Q<q> <YYYY>, the result is
\* exactly the months YYYY-((q-1)*3+1) .. YYYY-((q-1)*3+3) in ascending
\* order, whether or not they are among the available months.
C10_QuarterIsThreeMonths ==
    Parsed /\ Occurs(2) /\ ~Occurs(1) =>
        LET i == First(QuarterPositions(Asked))
            q == DigitVal[Asked[i + 1]]
            c == RunEnd(Asked, i + 2, Spaces)
            y == 1000 * DigitVal[Asked[c]] + 100 * DigitVal[Asked[c + 1]]
                     + 10 * DigitVal[Asked[c + 2]] + DigitVal[Asked[c + 3]]
        IN  /\ sel.kind = "series"
            /\ sel.months = << [y |-> y, m |-> (q - 1) * 3 + 1],
                               [y |-> y, m |-> (q - 1) * 3 + 2],
                               [y |-> y, m |-> (q - 1) * 3 + 3] >>

C10_Witness ==
    /\ Parsed
    /\ sel.rule = 2
    /\ Len(am) > 0
    /\ \E i \in 1..3 : InAvailable(sel.months[i])
    /\ \E i \in 1..3 : ~InAvailable(sel.months[i])

\* the word w stands at position i of t as a whole word
WordAt(t, i, w) ==
    /\ MatchAt(t, i, w)
    /\ (i = 1 \/ t[i - 1] \notin WordChars)
    /\ (i + Len(w) > Len(t) \/ t[i + Len(w)] \notin WordChars)

\* the month numbers whose name or abbreviation is a word of the text
MonthWords(t) ==
    {k \in 1..12 : \E i \in 1..Len(t) : WordAt(t, i, MonthName[k]) \/ WordAt(t, i, MonthAbbr[k])}

OnlyLoneName == ~Occurs(1) /\ ~Occurs(2) /\ ~Occurs(3) /\ ~Occurs(4) /\ ~Occurs(6)

LatestOf(k) == Max(Candidates(am, k))

\* C11: when the only time expression of the text is a lone month name or
\* abbreviation, the result is the single latest available month with that
\* month number, and None when there is no such available month; a word
\* that only contains a month abbreviation, as "marketing" does, is not a
\* month name, so a text without a month word gives None.
C11_LoneMonthNameIsAWord ==
    Parsed /\ OnlyLoneName /\ Cardinality(MonthWords(Asked)) <= 1 =>
        IF \E k \in MonthWords(Asked) : LatestOf(k) # NaT
        THEN \E k \in MonthWords(Asked) : sel = Series(5, <<LatestOf(k)>>)
        ELSE sel.kind = "none"

\* C12 as stated: the result is None exactly when none of the six patterns
\* occurs in the text (here for the case that some month is available).
C12_NoneIffNoPatternOccurs ==
    Parsed /\ Len(am) > 0 => (sel.kind = "none" <=> \A k \in 1..6 : ~Occurs(k))

\* C12: the result is None exactly when no rule can decide, that is when no
\* pattern of the last-N, quarter, named month + year, ISO and this/current
\* month rules occurs in the text and no month name in the text has an
\* available month of its number; no default month is returned in its
\* place, and "last N months" against no available month is an empty set,
\* not None.
C12_NoneIffNoRuleDecides ==
    Parsed =>
        /\ sel.kind = "none" <=> \A k \in 1..6 : ~Decides(k)
        /\ sel.kind = "none" => sel.months = <<>>
        /\ Occurs(1) /\ Len(am) = 0 => sel = Series(1, <<>>)

C12_Witness ==
    /\ Parsed
    /\ sel.kind = "none"
    /\ Occurs(5)
    /\ Len(am) > 0

---------------------------------------------------------------------------
(* Floating-point values: exact fractions n/d in lowest terms with d > 0,  *)
(* NaN and infinity                                                          *)

Abs(n) == IF n < 0 THEN -n ELSE n

RECURSIVE Gcd(_, _)
Gcd(a, b) == IF b = 0 THEN a ELSE Gcd(b, a % b)

NaN == [k |-> "nan", n |-> 0, d |-> 1]

Inf == [k |-> "inf", n |-> 1, d |-> 1]

\* float(n)
Float(n) == [k |-> "num", n |-> n, d |-> 1]

\* a / b for b # 0
Div(a, b) ==
    LET g == Gcd(Abs(a), Abs(b))
        sg == IF b < 0 THEN -1 ELSE 1
    IN  [k |-> "num", n |-> sg * (a \div g), d |-> Abs(b) \div g]

\* pd.notna
NotNa(v) == v.k # "nan"

\* a < b for two fractions
Less(a, b) == a.n * b.d < b.n * a.d

---------------------------------------------------------------------------
(* metrics.py *)

C_Revenue == <<"R","e","v","e","n","u","e">>
C_COGS == <<"C","O","G","S">>
C_Opex == <<"O","p","e","x">>
Colon == <<":">>

\* str.startswith
StartsWith(c, w) == MatchAt(c, 1, w)

_is_rev(c) == c = C_Revenue \/ StartsWith(c, C_Revenue \o Colon)

_is_cogs(c) == c = C_COGS \/ StartsWith(c, C_COGS \o Colon)

_is_opex(c) == StartsWith(c, C_Opex \o Colon)

\* bool(entity): None and the empty string select no filter
Truthy(e) == e.given /\ e.name # ""

\* f[f['entity'] == entity] when an entity is given
ByEntity(f, e) == IF Truthy(e) THEN SelectSeq(f, LAMBDA r : r.entity = e.name) ELSE f

\* ['amount_usd'].sum()
RECURSIVE Sum(_)
Sum(rows) == IF Len(rows) = 0 THEN 0 ELSE rows[1].amount_usd + Sum(SubSeq(rows, 2, Len(rows)))

\* fin['month'] == month: a missing month equals nothing
MonthEq(a, b) == a = b /\ a # NaT

IsActuals(r) == r.source = "actuals"

IsBudget(r) == r.source = "budget"

Rev(f) == Sum(SelectSeq(f, LAMBDA r : _is_rev(r.account_category)))

Cogs(f) == Sum(SelectSeq(f, LAMBDA r : _is_cogs(r.account_category)))

Opex(f) == Sum(SelectSeq(f, LAMBDA r : _is_opex(r.account_category)))

\* revenue_month with the percentage 0 for a zero budget
revenue_month_zero_pct(f0, month, e) ==
    LET f == ByEntity(SelectSeq(f0, LAMBDA r : MonthEq(r.month, month)), e)
        actual == Rev(SelectSeq(f, IsActuals))
        budget == Rev(SelectSeq(f, IsBudget))
        delta == actual - budget
    IN  [op |-> "revenue_month", actual |-> Float(actual), budget |-> Float(budget),
         delta |-> Float(delta),
         delta_pct |-> IF budget # 0 THEN Div(delta, budget) ELSE Float(0)]

revenue_month(f0, month, e) ==
    LET f == ByEntity(SelectSeq(f0, LAMBDA r : MonthEq(r.month, month)), e)
        actual == Rev(SelectSeq(f, IsActuals))
        budget == Rev(SelectSeq(f, IsBudget))
        delta == actual - budget
    IN  [op |-> "revenue_month", actual |-> Float(actual), budget |-> Float(budget),
         delta |-> Float(delta),
         delta_pct |-> IF budget # 0 THEN Div(delta, budget) ELSE NaN]

\* fin[(fin['source']=='actuals') & (fin['month'].isin(months))], then the entity
ActualsIn(f0, ms, e) ==
    ByEntity(SelectSeq(f0, LAMBDA r : IsActuals(r) /\ \E i \in 1..Len(ms) : ms[i] = r.month), e)

\* the keys of groupby('month'): the distinct months present, ascending
GroupKeys(f) == get_available_months(f)

Group(f, key) == SelectSeq(f, LAMBDA r : r.month = key)

\* one month's value of the gross margin series
GmPct(g) == IF Rev(g) = 0 THEN NaN ELSE Div(Rev(g) - Cogs(g), Rev(g))

\* gross_margin_pct_series with a zero-revenue month reported as 0
gross_margin_pct_series_zero(f0, ms, e) ==
    LET f == ActualsIn(f0, ms, e)
        keys == GroupKeys(f)
    IN  [i \in 1..Len(keys) |->
            [month |-> keys[i],
             v |-> IF Rev(Group(f, keys[i])) = 0 THEN Float(0) ELSE GmPct(Group(f, keys[i]))]]

gross_margin_pct_series(f0, ms, e) ==
    LET f == ActualsIn(f0, ms, e)
        keys == GroupKeys(f)
    IN  [i \in 1..Len(keys) |-> [month |-> keys[i], v |-> GmPct(Group(f, keys[i]))]]

\* ebitda_series computed over actuals and budget rows alike
ebitda_series_all_sources(f0, ms, e) ==
    LET f == ByEntity(SelectSeq(f0, LAMBDA r : \E i \in 1..Len(ms) : ms[i] = r.month), e)
        keys == GroupKeys(f)
    IN  [i \in 1..Len(keys) |->
            [month |-> keys[i],
             v |-> Float(Rev(Group(f, keys[i])) - Cogs(Group(f, keys[i])) - Opex(Group(f, keys[i])))]]

ebitda_series(f0, ms, e) ==
    LET f == ActualsIn(f0, ms, e)
        keys == GroupKeys(f)
    IN  [i \in 1..Len(keys) |->
            [month |-> keys[i],
             v |-> Float(Rev(Group(f, keys[i])) - Cogs(Group(f, keys[i])) - Opex(Group(f, keys[i])))]]

\* the characters of category names in code-point order
CodePoints == <<" ", "&", "-", "/", "0", "1", "2", "3", "4", "5", "6", "7", "8", "9", ":",
    "A", "B", "C", "D", "E", "F", "G", "H", "I", "J", "K", "L", "M", "N", "O", "P", "Q", "R",
    "S", "T", "U", "V", "W", "X", "Y", "Z", "_",
    "a", "b", "c", "d", "e", "f", "g", "h", "i", "j", "k", "l", "m", "n", "o", "p", "q", "r",
    "s", "t", "u", "v", "w", "x", "y", "z">>

Ord(c) == CHOOSE i \in 1..Len(CodePoints) : CodePoints[i] = c

\* a < b for two strings
RECURSIVE StrLess(_, _)
StrLess(a, b) ==
    IF Len(b) = 0 THEN FALSE
    ELSE IF Len(a) = 0 THEN TRUE
    ELSE IF a[1] # b[1] THEN Ord(a[1]) < Ord(b[1])
    ELSE StrLess(Tail(a), Tail(b))

\* the keys of groupby('account_category'): the distinct categories, ascending
RECURSIVE SortStrings(_)
SortStrings(q) ==
    IF Len(q) <= 1 THEN q
    ELSE LET init == SortStrings(SubSeq(q, 1, Len(q) - 1))
             last == q[Len(q)]
             k == Cardinality({i \in 1..Len(init) : ~StrLess(last, init[i])})
         IN  SubSeq(init, 1, k) \o <<last>> \o SubSeq(init, k + 1, Len(init))

CategoryKeys(f) == SortStrings(DropDuplicates([i \in 1..Len(f) |-> f[i].account_category]))

\* groupby('account_category')['amount_usd'].sum()
SumByCategory(f) ==
    LET keys == CategoryKeys(f)
    IN  [i \in 1..Len(keys) |->
            [category |-> keys[i],
             amount |-> Sum(SelectSeq(f, LAMBDA r : r.account_category = keys[i]))]]

Perms(n) == {p \in [1..n -> 1..n] : \A i, j \in 1..n : i # j => p[i] # p[j]}

\* sort_values(ascending=False): the sort kind is quicksort, which is not
\* stable, so entries with equal amounts come out in any order
SortValuesDescending(ser) ==
    {[i \in 1..Len(ser) |-> ser[p[i]]] : p \in {q \in Perms(Len(ser)) :
        \A i, j \in 1..Len(ser) : i < j => ser[q[i]].amount >= ser[q[j]].amount}}

\* the results opex_breakdown_month can return
opex_breakdown_month(f0, month, e) ==
    LET f == ByEntity(SelectSeq(f0, LAMBDA r : IsActuals(r) /\ MonthEq(r.month, month)), e)
        opex == SelectSeq(f, LAMBDA r : _is_opex(r.account_category))
    IN  SortValuesDescending(SumByCategory(opex))

\* burns = ebitda_recent3.apply(lambda x: max(0.0, -float(x)))
Burns(e) == [i \in 1..Len(e) |-> IF e[i] < 0 THEN -e[i] ELSE 0]

RECURSIVE SumSeq(_)
SumSeq(q) == IF Len(q) = 0 THEN 0 ELSE q[1] + SumSeq(Tail(q))

\* the rows cash_df.sort_values('month') can have last: a row without a
\* month sorts after every month and keeps its place among such rows; rows
\* of the same month come out in any order
LastAfterSort(cash_df) ==
    LET NoMonth == {i \in 1..Len(cash_df) : cash_df[i].month = NaT}
    IN  IF NoMonth # {}
        THEN {cash_df[CHOOSE i \in NoMonth : \A j \in NoMonth : j <= i]}
        ELSE {cash_df[i] : i \in {j \in 1..Len(cash_df) :
                 \A h \in 1..Len(cash_df) : Ordinal(cash_df[h].month) <= Ordinal(cash_df[j].month)}}

IndexError == [k |-> "raise", n |-> 0, d |-> 1]

\* cash_runway on the mean of the EBITDA values instead of the burns
cash_runway_mean_ebitda(cash_df, e) ==
    IF Len(e) = 0 THEN {Inf}
    ELSE IF Len(cash_df) = 0 THEN {IndexError}
    ELSE LET last3 == tail(e, 3)
             total == -SumSeq(last3)
         IN  IF total <= 0 THEN {Inf}
             ELSE {Div(r.amount_usd * Len(last3), total) : r \in LastAfterSort(cash_df)}

\* the results cash_runway can return or raise
cash_runway(cash_df, e) ==
    IF Len(e) = 0 THEN {Inf}
    ELSE IF Len(cash_df) = 0 THEN {IndexError}
    ELSE LET last3 == tail(Burns(e), 3)
             total == SumSeq(last3)
         IN  IF total = 0 THEN {Inf}
             ELSE {Div(r.amount_usd * Len(last3), total) : r \in LastAfterSort(cash_df)}

---------------------------------------------------------------------------
(* tools.py: the date filter of tool_opex_breakdown and tool_revenue_analysis *)

NoTarget == [period |-> NaT, year |-> 0]

\* the alternatives of month_year_pattern in the order they are tried
MonthWordsTried ==
    MonthName \o SubSeq(MonthAbbr, 1, 9) \o <<Sept>> \o SubSeq(MonthAbbr, 10, 12)

\* \b before position i
BoundaryBefore(s, i) == i = 1 \/ s[i - 1] \notin WordChars

\* \b after the word character at position i - 1
BoundaryAfter(s, i) == i > Len(s) \/ s[i] \notin WordChars

\* (20\d{2})\b at position c
YearAt(s, c) ==
    /\ c + 3 <= Len(s)
    /\ s[c] = "2" /\ s[c + 1] = "0" /\ s[c + 2] \in Digits /\ s[c + 3] \in Digits
    /\ BoundaryAfter(s, c + 4)

\* month_year_pattern matched at position i with alternative k
MonthYearWordAt(s, i, k) ==
    /\ BoundaryBefore(s, i)
    /\ MatchAt(lower(s), i, MonthWordsTried[k])
    /\ LET e == i + Len(MonthWordsTried[k])
           c == RunEnd(s, e, Spaces)
       IN  c > e /\ YearAt(s, c)

MonthYearWordPositions(s) ==
    {i \in 1..Len(s) : \E k \in 1..Len(MonthWordsTried) : MonthYearWordAt(s, i, k)}

\* dtparse(f"{month_str} {year_str}") of the leftmost match
MonthYearTarget(s, now) ==
    LET i == First(MonthYearWordPositions(s))
        k == First({h \in 1..Len(MonthWordsTried) : MonthYearWordAt(s, i, h)})
        e == i + Len(MonthWordsTried[k])
        c == RunEnd(s, e, Spaces)
        Target(d) ==
            IF d.ok /\ PdPeriod(Pad4(d.year) \o <<"-">> \o Pad2(d.month)) # NaT
            THEN [period |-> PdPeriod(Pad4(d.year) \o <<"-">> \o Pad2(d.month)), year |-> d.year]
            ELSE NoTarget
    IN  Target(dtparse(SubSeq(s, i, e - 1) \o <<" ">> \o SubSeq(s, c, c + 3), now))

\* how many digits (\d{1,2})\b takes at position c, 0 when it cannot match
MonthDigitsAt(s, c) ==
    IF c + 1 <= Len(s) /\ s[c] \in Digits /\ s[c + 1] \in Digits /\ BoundaryAfter(s, c + 2) THEN 2
    ELSE IF c <= Len(s) /\ s[c] \in Digits /\ BoundaryAfter(s, c + 1) THEN 1
    ELSE 0

\* iso_pattern matched at position i
IsoTargetAt(s, i) ==
    /\ BoundaryBefore(s, i)
    /\ i + 5 <= Len(s)
    /\ s[i] = "2" /\ s[i + 1] = "0" /\ s[i + 2] \in Digits /\ s[i + 3] \in Digits
    /\ s[i + 4] \in {"-", "/"}
    /\ MonthDigitsAt(s, i + 5) > 0

IsoTargetPositions(s) == {i \in 1..Len(s) : IsoTargetAt(s, i)}

IsoTarget(s) ==
    LET i == First(IsoTargetPositions(s))
        year == NumVal(SubSeq(s, i, i + 3))
        month == NumVal(SubSeq(s, i + 5, i + 4 + MonthDigitsAt(s, i + 5)))
    IN  IF month \in 1..12
        THEN [period |-> PdPeriod(Str(year) \o <<"-">> \o Pad2(month)), year |-> year]
        ELSE NoTarget

\* \b(20\d{2})\b
YearPositions(s) == {i \in 1..Len(s) : BoundaryBefore(s, i) /\ YearAt(s, i)}

\* target_period and target_year after the three patterns
DateTarget(q, now) ==
    LET s == OrEmpty(q)
        byName == IF MonthYearWordPositions(s) # {} THEN MonthYearTarget(s, now) ELSE NoTarget
        ThenIso(t) ==
            IF t.period # NaT THEN t
            ELSE IF IsoTargetPositions(s) # {} /\ IsoTarget(s).period # NaT THEN IsoTarget(s)
            ELSE t
        ThenYear(t) ==
            IF t.period # NaT THEN t
            ELSE IF YearPositions(s) # {}
                 THEN [period |-> NaT, year |-> NumVal(SubSeq(s, First(YearPositions(s)), First(YearPositions(s)) + 3))]
                 ELSE t
    IN  ThenYear(ThenIso(byName))

---------------------------------------------------------------------------
(* tools.py: the tools.  An answer is modelled by the figures it prints, a   *)
(* chart by its kind and payload; a tool gives the set of results it can     *)
(* return or raise.                                                          *)

\* (a - b) * 100 for two fractions
PointsBetween(a, b) == Div((a.n * b.d - b.n * a.d) * 100, a.d * b.d)

\* a / b * 100 for integers, b # 0
Pct(a, b) == Div(a * 100, b)

ToolRaised == [op |-> "raise"]

NoChart == [kind |-> "none"]

Answer(name, figures, chart) == [op |-> name, answer |-> figures, chart |-> chart]

\* sel is None or sel.empty
NoneOrEmpty(p) == p.kind = "none" \/ Len(p.months) = 0

\* p is the one result of parse_months(question_text, months)
tool_revenue_vs_budget(f, q, e, now) ==
    LET ms == get_available_months(f)
    IN  UNION {
          LET sl == IF NoneOrEmpty(p) THEN <<Max(ms)>> ELSE p.months
              m == sl[Len(sl)]
              r == revenue_month(f, m, e)
          IN  IF p.kind = "raise" THEN {ToolRaised}
              ELSE {Answer("revenue_vs_budget",
                           [month |-> m, actual |-> r.actual, budget |-> r.budget,
                            plus |-> r.delta.n >= 0,
                            pct |-> IF NotNa(r.delta_pct) THEN Pct(r.delta_pct.n, r.delta_pct.d) ELSE NaN],
                           [kind |-> "rev_vs_budget",
                            payload |-> [actual |-> r.actual, budget |-> r.budget, month |-> m]])} :
          p \in {parse_months(q, ms, now)}}

\* Series.dropna()
DropNaValues(ser) == SelectSeq(ser, LAMBDA pt : NotNa(pt.v))

tool_gm_trend(f, q, e, now) ==
    LET ms == get_available_months(f)
    IN  UNION {
          LET sl == IF NoneOrEmpty(p) THEN tail(SortValues(ms), 3) ELSE p.months
              gm == DropNaValues(gross_margin_pct_series(f, sl, e))
          IN  IF p.kind = "raise" THEN {ToolRaised}
              ELSE IF Len(gm) = 0 THEN {Answer("gm_trend", [nodata |-> TRUE], NoChart)}
              ELSE {Answer("gm_trend",
                           [nodata |-> FALSE,
                            start_m |-> gm[1].month, end_m |-> gm[Len(gm)].month,
                            start_v |-> gm[1].v, end_v |-> gm[Len(gm)].v,
                            delta_pp |-> PointsBetween(gm[Len(gm)].v, gm[1].v)],
                           [kind |-> "gm_trend", payload |-> [points |-> gm]])} :
          p \in {parse_months(q, ms, now)}}

tool_cash_runway(f, cash_df, q, e) ==
    LET last6 == tail(SortValues(get_available_months(f)), 6)
        last3 == tail(ebitda_series(f, last6, e), 3)
    IN  {IF r = IndexError THEN ToolRaised
         ELSE Answer("cash_runway",
                     IF r = Inf THEN [runway |-> Inf, ebitda |-> last3]
                     ELSE [runway |-> r, ebitda |-> <<>>],
                     [kind |-> "cash_trend", payload |-> <<>>]) :
            r \in cash_runway(cash_df, [i \in 1..Len(last3) |-> last3[i].v.n])}

W_marketing == <<"m","a","r","k","e","t","i","n","g">>
W_sales == <<"s","a","l","e","s">>
W_rnd == <<"r","&","d">>
W_admin == <<"a","d","m","i","n">>

NoCategory == <<>>

\* specific_category
SpecificCategory(t) ==
    IF Contains(t, W_marketing) THEN <<"M","a","r","k","e","t","i","n","g">>
    ELSE IF Contains(t, W_sales) THEN <<"S","a","l","e","s">>
    ELSE IF Contains(t, W_rnd) THEN <<"R","&","D">>
    ELSE IF Contains(t, W_admin) THEN <<"A","d","m","i","n">>
    ELSE NoCategory

\* the rows inside the date filter: the target month, else the target
\* year, else all
InTarget(rows, target) ==
    IF target.period # NaT THEN SelectSeq(rows, LAMBDA r : MonthEq(r.month, target.period))
    ELSE IF target.year # 0 THEN SelectSeq(rows, LAMBDA r : r.month # NaT /\ r.month.y = target.year)
    ELSE rows

\* groupby('month')['amount_usd'].sum().sort_index()
\* the sums of a month grouping in descending month order
SumByMonth_descending(rows) ==
    LET keys == GroupKeys(rows)
    IN  [i \in 1..Len(keys) |->
            [month |-> keys[Len(keys) + 1 - i], amount |-> Sum(Group(rows, keys[Len(keys) + 1 - i]))]]

SumByMonth(rows) ==
    LET keys == GroupKeys(rows)
    IN  [i \in 1..Len(keys) |-> [month |-> keys[i], amount |-> Sum(Group(rows, keys[i]))]]

Scope(target) == IF target.period # NaT THEN "month" ELSE IF target.year # 0 THEN "year" ELSE "all"

\* the category form answering with zero totals where no row is selected
CategorySpend_zero_totals(actuals_fin, cat, target) ==
    LET all == SelectSeq(actuals_fin, LAMBDA r : r.account_category = C_Opex \o Colon \o cat)
        data == InTarget(all, target)
    IN  Answer("opex_breakdown",
               [found |-> TRUE, category |-> cat, scope |-> Scope(target),
                total |-> Float(Sum(data)),
                months_with_data |-> Len(GroupKeys(data)),
                first |-> Max(<<>>), last |-> Max(GroupKeys(data))],
               [kind |-> "category_trend",
                payload |-> [category |-> cat, data |-> SumByMonth(data)]])

\* the category form of tool_opex_breakdown
CategorySpend(actuals_fin, cat, target) ==
    LET all == SelectSeq(actuals_fin, LAMBDA r : r.account_category = C_Opex \o Colon \o cat)
        data == InTarget(all, target)
    IN  IF Len(all) = 0 THEN Answer("opex_breakdown", [found |-> FALSE, category |-> cat, scope |-> "dataset"], NoChart)
        ELSE IF Len(data) = 0
             THEN Answer("opex_breakdown", [found |-> FALSE, category |-> cat, scope |-> Scope(target)], NoChart)
        ELSE Answer("opex_breakdown",
                    [found |-> TRUE, category |-> cat, scope |-> Scope(target),
                     total |-> Float(Sum(data)),
                     months_with_data |-> Len(GroupKeys(data)),
                     first |-> GroupKeys(data)[1],
                     last |-> GroupKeys(data)[Len(GroupKeys(data))]],
                    [kind |-> "category_trend",
                     payload |-> [category |-> cat, data |-> SumByMonth(data)]])

\* the month form of tool_opex_breakdown
\* the month form reporting the first month of the resolved set
MonthBreakdown_first_month(actuals_fin, ms, q, e, now) ==
    UNION {
      LET sl == IF NoneOrEmpty(p) THEN <<Max(ms)>> ELSE p.months
          m == sl[1]
      IN  IF p.kind = "raise" THEN {ToolRaised}
          ELSE {IF Len(ser) = 0 THEN Answer("opex_breakdown", [found |-> FALSE, month |-> m], NoChart)
                ELSE Answer("opex_breakdown",
                            [found |-> TRUE, month |-> m,
                             total |-> Float(SumSeq([i \in 1..Len(ser) |-> ser[i].amount]))],
                            [kind |-> "opex_breakdown", payload |-> [month |-> m, bars |-> ser]]) :
                   ser \in opex_breakdown_month(actuals_fin, m, e)} :
      p \in {parse_months(q, ms, now)}}

MonthBreakdown(actuals_fin, ms, q, e, now) ==
    UNION {
      LET sl == IF NoneOrEmpty(p) THEN <<Max(ms)>> ELSE p.months
          m == sl[Len(sl)]
      IN  IF p.kind = "raise" THEN {ToolRaised}
          ELSE {IF Len(ser) = 0 THEN Answer("opex_breakdown", [found |-> FALSE, month |-> m], NoChart)
                ELSE Answer("opex_breakdown",
                            [found |-> TRUE, month |-> m,
                             total |-> Float(SumSeq([i \in 1..Len(ser) |-> ser[i].amount]))],
                            [kind |-> "opex_breakdown", payload |-> [month |-> m, bars |-> ser]]) :
                   ser \in opex_breakdown_month(actuals_fin, m, e)} :
      p \in {parse_months(q, ms, now)}}

tool_opex_breakdown(f, q, e, now) ==
    LET ms == get_available_months(f)
        actuals_fin == SelectSeq(f, IsActuals)
    IN  UNION {
          IF cat # NoCategory
          THEN {CategorySpend(actuals_fin, cat, target) : target \in {DateTarget(q, now)}}
          ELSE MonthBreakdown(actuals_fin, ms, q, e, now) :
          cat \in {SpecificCategory(lower(OrEmpty(q)))}}

\* Series.head(n)
head(q, n) == IF n >= Len(q) THEN q ELSE SubSeq(q, 1, n)

Amounts(ser) == [i \in 1..Len(ser) |-> ser[i].amount]

NoGrowth == [shown |-> FALSE, recent |-> NaN, prior |-> NaN, rate |-> NaN]

\* growth_info: the later months' mean against the earlier months' mean
Growth(monthly_actuals) ==
    LET n == Len(monthly_actuals)
        k == IF n >= 12 THEN 6 ELSE n \div 2
        recent == SumSeq(Amounts(tail(monthly_actuals, k)))
        prior == SumSeq(Amounts(head(monthly_actuals, k)))
    IN  IF n < 6 THEN NoGrowth
        ELSE [shown |-> TRUE, recent |-> Div(recent, k), prior |-> Div(prior, k),
              rate |-> IF prior > 0 THEN Pct(recent - prior, prior) ELSE Float(0)]

\* entity_breakdown: the actuals total of each entity, when there are several
EntityBreakdown(data) ==
    LET names == {data[i].entity : i \in 1..Len(data)}
    IN  IF Cardinality(names) > 1
        THEN {[entity |-> n, amount |-> Sum(SelectSeq(data, LAMBDA r : IsActuals(r) /\ r.entity = n))] :
                 n \in {data[i].entity : i \in {j \in 1..Len(data) : IsActuals(data[j])}}}
        ELSE {}

\* chart_data
RevenueTrend(monthly_actuals, monthly_budget) ==
    [i \in 1..Len(monthly_actuals) |->
        LET at == {j \in 1..Len(monthly_budget) : monthly_budget[j].month = monthly_actuals[i].month}
        IN  [month |-> monthly_actuals[i].month,
             actual |-> monthly_actuals[i].amount,
             budget |-> IF at = {} THEN [some |-> FALSE, v |-> 0]
                        ELSE [some |-> TRUE, v |-> monthly_budget[CHOOSE j \in at : TRUE].amount]]]

tool_revenue_analysis(f, q, e, now) ==
  UNION {
    LET ms == get_available_months(f)
        all == SelectSeq(f, LAMBDA r : r.account_category = C_Revenue)
        data == InTarget(all, target)
        actuals_total == Sum(SelectSeq(data, IsActuals))
        budget_total == Sum(SelectSeq(data, IsBudget))
        monthly_actuals == SumByMonth(SelectSeq(data, IsActuals))
        monthly_budget == SumByMonth(SelectSeq(data, IsBudget))
    IN  IF Len(all) = 0 THEN {Answer("revenue_analysis", [found |-> FALSE, scope |-> "dataset"], NoChart)}
        ELSE IF Len(data) = 0
             THEN {Answer("revenue_analysis", [found |-> FALSE, scope |-> Scope(target)], NoChart)}
        ELSE {Answer("revenue_analysis",
                     [found |-> TRUE, scope |-> Scope(target),
                      first |-> IF Len(ms) = 0 THEN NaT ELSE ms[1],
                      last |-> Max(ms),
                      actuals_total |-> Float(actuals_total),
                      budget_total |-> Float(budget_total),
                      variance |-> Float(actuals_total - budget_total),
                      variance_pct |-> IF budget_total > 0
                                       THEN Pct(actuals_total - budget_total, budget_total)
                                       ELSE Float(0),
                      growth |-> Growth(monthly_actuals),
                      by_entity |-> EntityBreakdown(data)],
                     [kind |-> "revenue_trend",
                      payload |-> [data |-> RevenueTrend(monthly_actuals, monthly_budget)]])} :
    target \in {DateTarget(q, now)}}

\* month_ebitda of tool_financial_performance
MonthEbitda(actuals, m) ==
    LET g == Group(actuals, m)
    IN  Sum(SelectSeq(g, LAMBDA r : r.account_category = C_Revenue))
        - Sum(SelectSeq(g, LAMBDA r : r.account_category = C_COGS))
        - Opex(g)

\* runway_months of tool_financial_performance
PerformanceRunway(actuals, ms, cash_end) ==
    LET recent == tail(ms, 6)
        burn == -SumSeq([i \in 1..Len(recent) |-> MonthEbitda(actuals, recent[i])])
    IN  IF Len(ms) >= 6 /\ burn > 0 THEN Div(cash_end * Len(recent), burn) ELSE Inf

tool_financial_performance(f, cash_df, q, e) ==
    LET ms == get_available_months(f)
        actuals == SelectSeq(f, IsActuals)
        revenue == Sum(SelectSeq(actuals, LAMBDA r : r.account_category = C_Revenue))
        cogs == Sum(SelectSeq(actuals, LAMBDA r : r.account_category = C_COGS))
        gross_profit == revenue - cogs
        total_opex == Opex(actuals)
        ebitda_total == gross_profit - total_opex
        cash_start == IF Len(cash_df) = 0 THEN 0 ELSE cash_df[1].amount_usd
        cash_end == IF Len(cash_df) = 0 THEN 0 ELSE cash_df[Len(cash_df)].amount_usd
    IN  IF Len(ms) = 0 THEN {Answer("financial_performance", [found |-> FALSE], NoChart)}
        ELSE {Answer("financial_performance",
                     [found |-> TRUE, first |-> ms[1], last |-> Max(ms),
                      revenue |-> Float(revenue),
                      gross_profit |-> Float(gross_profit),
                      gross_margin_pct |-> IF revenue > 0 THEN Pct(gross_profit, revenue) ELSE Float(0),
                      total_opex |-> Float(total_opex),
                      ebitda |-> Float(ebitda_total),
                      ebitda_margin_pct |-> IF revenue > 0 THEN Pct(ebitda_total, revenue) ELSE Float(0),
                      cash_start |-> Float(cash_start), cash_end |-> Float(cash_end),
                      cash_burn |-> Float(cash_start - cash_end),
                      runway |-> PerformanceRunway(actuals, ms, cash_end)],
                     [kind |-> "cash_trend", payload |-> <<>>])}

\* tool_data_coverage: the months on either side of the current month, the
\* entities, the Revenue totals by source and the first and last cash rows
tool_data_coverage(f, cash_df, q, e, now) ==
    LET ms == get_available_months(f)
        current_period == Period(now.year, now.month)
        historical == SelectSeq(ms, LAMBDA m : Ordinal(m) <= Ordinal(current_period))
        projected == SelectSeq(ms, LAMBDA m : Ordinal(m) > Ordinal(current_period))
        revenue_data == SelectSeq(f, LAMBDA r : r.account_category = C_Revenue /\ r.month # NaT)
        cash_start == IF Len(cash_df) = 0 THEN 0 ELSE cash_df[1].amount_usd
        cash_end == IF Len(cash_df) = 0 THEN 0 ELSE cash_df[Len(cash_df)].amount_usd
    IN  IF Len(ms) = 0 THEN {Answer("data_coverage", [found |-> FALSE], NoChart)}
        ELSE {Answer("data_coverage",
                     [found |-> TRUE,
                      historical |-> Len(historical), projected |-> Len(projected),
                      first |-> ms[1], last |-> Max(ms),
                      entity_names |-> {f[i].entity : i \in 1..Len(f)},
                      total_revenue_actual |-> Float(Sum(SelectSeq(revenue_data, IsActuals))),
                      total_revenue_budget |-> Float(Sum(SelectSeq(revenue_data, IsBudget))),
                      cash_start |-> Float(cash_start), cash_end |-> Float(cash_end),
                      cash_change |-> Float(cash_end - cash_start)],
                     [kind |-> "dataset_overview", payload |-> <<>>])}

\* dispatch, with args empty: the hint is the question text, the entity the
\* caller's
dispatch(tool_name, f, cash_df, q, e, now) ==
    CASE tool_name = "revenue_analysis" -> tool_revenue_analysis(f, q, e, now)
      [] tool_name = "revenue_vs_budget" -> tool_revenue_vs_budget(f, q, e, now)
      [] tool_name = "gm_trend" -> tool_gm_trend(f, q, e, now)
      [] tool_name = "opex_breakdown" -> tool_opex_breakdown(f, q, e, now)
      [] tool_name = "cash_runway" -> tool_cash_runway(f, cash_df, q, e)
      [] tool_name = "financial_performance" -> tool_financial_performance(f, cash_df, q, e)
      [] tool_name = "data_coverage" -> tool_data_coverage(f, cash_df, q, e, now)
      [] OTHER -> {Answer("unknown", [found |-> FALSE], NoChart)}

---------------------------------------------------------------------------
(* Calling the metrics on a canonical ledger *)

MaxLedger == 3

C_RevenueServices == C_Revenue \o Colon \o <<"S","v","c">>
C_Revenues == C_Revenue \o <<"s">>
C_OpexMarketing == C_Opex \o Colon \o <<"M","a","r","k","e","t","i","n","g">>
C_OpexSales == C_Opex \o Colon \o <<"S","a","l","e","s">>

M05 == Period(2025, 5)
M06 == Period(2025, 6)

FinRow(mo, ent, cat, amt, src) ==
    [month |-> mo, entity |-> ent, account_category |-> cat, amount_usd |-> amt, source |-> src]

\* the rows a canonical ledger is drawn from, in the order they keep in it
FinRows == <<
    FinRow(M06, "ParentCo", C_Revenue, 1200, "actuals"),
    FinRow(M06, "ParentCo", C_COGS, 500, "actuals"),
    FinRow(M06, "ParentCo", C_OpexMarketing, 300, "actuals"),
    FinRow(M06, "ParentCo", C_OpexSales, 300, "actuals"),
    FinRow(M06, "EMEA", C_RevenueServices, 400, "actuals"),
    FinRow(M06, "EMEA", C_Revenues, 50, "actuals"),
    FinRow(M05, "ParentCo", C_COGS, 400, "actuals"),
    FinRow(M05, "EMEA", C_Revenue, 1000, "actuals"),
    FinRow(M05, "ParentCo", C_OpexSales, 1500, "actuals"),
    FinRow(M06, "ParentCo", C_Revenue, 1100, "budget"),
    FinRow(M06, "EMEA", C_OpexMarketing, 200, "budget") >>

\* the ledgers of at most MaxLedger of these rows
Ledgers ==
    {[i \in 1..Len(q) |-> FinRows[q[i]]] :
        q \in {r \in SeqsUpTo(1..Len(FinRows), MaxLedger) :
                  \A i, j \in 1..Len(r) : i < j => r[i] < r[j]}}

Entities == {NoEntity, Entity(""), Entity("EMEA"), Entity("ParentCo")}

\* month selections: any order, with repeats
Selections == {<<M06>>, <<M05>>, <<M05, M06>>, <<M06, M05>>, <<M06, M05, M06>>}

\* the questions put to the tools
Q_marketing == Txt(<<"m","a","r","k","e","t","i","n","g">>)

Q_June_2025 == Txt(<<"J","u","n","e"," ","2","0","2","5">>)

Q_Q2_2025 == Txt(<<"Q","2"," ","2","0","2","5">>)

Q_2025_05 == Txt(<<"2","0","2","5","-","0","5">>)

Q_2025 == Txt(<<"2","0","2","5">>)

Q_sales_2024 == Txt(<<"s","a","l","e","s"," ","2","0","2","4">>)

Q_marketing_May_2025 == Txt(<<"m","a","r","k","e","t","i","n","g"," ","M","a","y"," ","2","0","2","5">>)

Q_Marketing_2025 == Txt(<<"M","a","r","k","e","t","i","n","g"," ","2","0","2","5">>)

Q_2025_13_2025_06 == Txt(<<"2","0","2","5","-","1","3"," ","2","0","2","5","-","0","6">>)

ToolQuestions == {
    Missing,
    Q_marketing,
    Q_June_2025,
    Q_Q2_2025,
    Q_2025_05,
    Q_2025,
    Q_sales_2024,
    Q_marketing_May_2025,
    Q_Marketing_2025,
    Q_2025_13_2025_06 }

\* the cash rows handed to the tools
ToolCash == {
    <<>>,
    <<[month |-> M05, entity |-> "Consolidated", amount_usd |-> 10000],
      [month |-> M06, entity |-> "Consolidated", amount_usd |-> 9800]>> }

\* the month argument of the single-month metrics, as the tools take it
Month == msel[Len(msel)]

InitMetrics ==
    /\ today = Clock
    /\ dfs = NoInputs
    /\ norm = NoNorm
    /\ months = <<>>
    /\ x = Missing
    /\ period = NaT
    /\ am = <<>>
    /\ sel = NoSel
    /\ ledger \in Ledgers
    /\ entity \in Entities
    /\ ebitda = <<>>
    /\ out = NoOut
    /\ \/ pc = "ready" /\ msel \in Selections /\ text = Missing /\ cashdf = <<>>
       \/ pc = "asked" /\ msel = <<>> /\ text \in ToolQuestions /\ cashdf \in ToolCash

Called(name, result) ==
    /\ pc = "ready"
    /\ pc' = name
    /\ out' = result
    /\ UNCHANGED <<today, dfs, norm, months, x, period, text, am, sel>>
    /\ UNCHANGED <<ledger, cashdf, entity, msel, ebitda>>

RevenueMonth == Called("revenue_month", revenue_month(ledger, Month, entity))

GrossMarginPctSeries ==
    Called("gross_margin_pct_series", gross_margin_pct_series(ledger, msel, entity))

OpexBreakdownMonth ==
    /\ pc = "ready"
    /\ \E ser \in opex_breakdown_month(ledger, Month, entity) : Called("opex_breakdown_month", ser)

EbitdaSeries == Called("ebitda_series", ebitda_series(ledger, msel, entity))

\* the tools dispatch knows, with the position reached after each
ToolNames == {"revenue_analysis", "revenue_vs_budget", "gm_trend",
              "opex_breakdown", "cash_runway", "financial_performance", "data_coverage"}

Reached(tool_name) ==
    CASE tool_name = "revenue_analysis" -> "tool_revenue_analysis"
      [] tool_name = "revenue_vs_budget" -> "tool_revenue_vs_budget"
      [] tool_name = "gm_trend" -> "tool_gm_trend"
      [] tool_name = "opex_breakdown" -> "tool_opex_breakdown"
      [] tool_name = "cash_runway" -> "tool_cash_runway"
      [] tool_name = "financial_performance" -> "tool_financial_performance"
      [] tool_name = "data_coverage" -> "tool_data_coverage"

\* dispatch(tool_name, args, fin, cash, question_text, entity)
Dispatch ==
    /\ pc = "asked"
    /\ \E tool_name \in ToolNames :
          /\ \E r \in dispatch(tool_name, ledger, cashdf, text, entity, today) : out' = r
          /\ pc' = Reached(tool_name)
    /\ UNCHANGED <<today, dfs, norm, months, x, period, text, am, sel>>
    /\ UNCHANGED <<ledger, cashdf, entity, msel, ebitda>>

NextMetrics ==
    \/ RevenueMonth
    \/ GrossMarginPctSeries
    \/ OpexBreakdownMonth
    \/ EbitdaSeries
    \/ Dispatch

SpecMetrics == InitMetrics /\ [][NextMetrics]_vars

---------------------------------------------------------------------------
(* Properties of the metrics *)

\* category Revenue or prefix Revenue:
RevenueClass(c) ==
    \/ c = <<"R","e","v","e","n","u","e">>
    \/ Len(c) >= 8 /\ SubSeq(c, 1, 8) = <<"R","e","v","e","n","u","e",":">>

CogsClass(c) ==
    \/ c = <<"C","O","G","S">>
    \/ Len(c) >= 5 /\ SubSeq(c, 1, 5) = <<"C","O","G","S",":">>

OpexClass(c) == Len(c) >= 5 /\ SubSeq(c, 1, 5) = <<"O","p","e","x",":">>

\* the row is of the entity asked for, or no entity was asked for
OfEntity(r) == entity.given /\ entity.name # "" => r.entity = entity.name

\* the sum of amount_usd over the ledger rows satisfying P
Total(P(_)) == Sum(SelectSeq(ledger, P))

RevenueOf(mo, src) ==
    Total(LAMBDA r : r.month = mo /\ r.source = src /\ RevenueClass(r.account_category) /\ OfEntity(r))

\* C13: revenue_month returns the actuals and budget sums of the
\* Revenue-class rows of the month, their difference, and the difference
\* over the budget, which is the undefined value when the budget is zero.
C13_RevenueMonth ==
    pc = "revenue_month" =>
        LET a == RevenueOf(Month, "actuals")
            b == RevenueOf(Month, "budget")
        IN  /\ out.actual = Float(a)
            /\ out.budget = Float(b)
            /\ out.delta = Float(a - b)
            /\ b # 0 => /\ out.delta_pct.k = "num"
                        /\ out.delta_pct.n * b = (a - b) * out.delta_pct.d
            /\ b = 0 => out.delta_pct = NaN

C13_Witness ==
    /\ pc = "revenue_month"
    /\ out.actual = Float(1200)
    /\ out.budget = Float(1100)
    /\ out.delta = Float(100)
    /\ out.delta_pct = [k |-> "num", n |-> 1, d |-> 11]

\* the Opex:* categories of the actuals rows of the month
OpexCategories ==
    {ledger[i].account_category : i \in {j \in 1..Len(ledger) :
        /\ ledger[j].month = Month
        /\ ledger[j].source = "actuals"
        /\ OpexClass(ledger[j].account_category)
        /\ OfEntity(ledger[j])}}

OpexOf(c) ==
    Total(LAMBDA r : r.month = Month /\ r.source = "actuals" /\ r.account_category = c /\ OfEntity(r))

\* one entry per Opex:* category of the month's actuals rows, with its sum,
\* by amount descending
OpexEntries ==
    /\ {out[i].category : i \in 1..Len(out)} = OpexCategories
    /\ Len(out) = Cardinality(OpexCategories)
    /\ \A i \in 1..Len(out) : out[i].amount = OpexOf(out[i].category)
    /\ \A i \in 1..(Len(out) - 1) : out[i].amount >= out[i + 1].amount

\* C15: opex_breakdown_month returns one entry per Opex:* category of the
\* month's actuals rows with the sum of its amounts, by amount descending,
\* and categories of equal amount stand in ascending order of their names.
C15_OpexBreakdownTiesByName ==
    pc = "opex_breakdown_month" =>
        /\ OpexEntries
        /\ \A i \in 1..(Len(out) - 1) :
              out[i].amount = out[i + 1].amount => StrLess(out[i].category, out[i + 1].category)

\* the selected months that have actuals rows of the entity asked for
MonthsWithActuals ==
    {ledger[i].month : i \in {j \in 1..Len(ledger) :
        /\ ledger[j].source = "actuals"
        /\ OfEntity(ledger[j])
        /\ \E h \in 1..Len(msel) : msel[h] = ledger[j].month}}

ActualsOf(mo, Class(_)) ==
    Total(LAMBDA r : r.month = mo /\ r.source = "actuals" /\ Class(r.account_category) /\ OfEntity(r))

SameMonths(q) == Range(q) = Range(msel)

IndexedAscending ==
    /\ {out[i].month : i \in 1..Len(out)} = MonthsWithActuals
    /\ \A i \in 1..(Len(out) - 1) : Ordinal(out[i].month) < Ordinal(out[i + 1].month)

\* C16: ebitda_series has one value per selected month with actuals rows,
\* revenue - cogs - opex over the actuals rows of the month alone, indexed
\* by month ascending whatever the order of the selection.
C16_EbitdaSeries ==
    pc = "ebitda_series" =>
        /\ IndexedAscending
        /\ \A i \in 1..Len(out) :
              out[i].v = Float(ActualsOf(out[i].month, RevenueClass)
                               - ActualsOf(out[i].month, CogsClass)
                               - ActualsOf(out[i].month, OpexClass))
        /\ \A q \in Selections : SameMonths(q) => ebitda_series(ledger, q, entity) = out

C16_Witness ==
    /\ pc = "ebitda_series"
    /\ msel = <<M06, M05>>
    /\ Len(out) = 2
    /\ out[1].v.n < 0
    /\ \E i \in 1..Len(ledger) : ledger[i].source = "budget" /\ ledger[i].month = M06

---------------------------------------------------------------------------
(* Calling cash_runway *)

MaxSlice == 4

CashAmount(mo, ent, amt) == [month |-> mo, entity |-> ent, amount_usd |-> amt]

\* cash tables as normalize hands them on: in file order, a month that
\* could not be read missing
CashFrames == {
    <<>>,
    <<CashAmount(M05, "Consolidated", 10000)>>,
    <<CashAmount(M05, "Consolidated", 10000), CashAmount(M06, "Consolidated", 9800)>>,
    <<CashAmount(M06, "Consolidated", 9800), CashAmount(M05, "Consolidated", 10000)>>,
    <<CashAmount(M06, "ParentCo", 9800), CashAmount(M06, "EMEA", 1200)>>,
    <<CashAmount(NaT, "Consolidated", 700), CashAmount(M06, "Consolidated", 9800)>> }

EbitdaValues == {-600, 0, 300}

InitRunway ==
    /\ pc = "ready"
    /\ today = Clock
    /\ dfs = NoInputs
    /\ norm = NoNorm
    /\ months = <<>>
    /\ x = Missing
    /\ period = NaT
    /\ text = Missing
    /\ am = <<>>
    /\ sel = NoSel
    /\ ledger = <<>>
    /\ cashdf \in CashFrames
    /\ entity = NoEntity
    /\ msel = <<>>
    /\ ebitda \in SeqsUpTo(EbitdaValues, MaxSlice)
    /\ out = NoOut

CashRunway == \E r \in cash_runway(cashdf, ebitda) : Called("cash_runway", r)

NextRunway == CashRunway

SpecRunway == InitRunway /\ [][NextRunway]_vars

\* the last three values of the slice, or all of them when fewer
Recent == SubSeq(ebitda, IF Len(ebitda) > 3 THEN Len(ebitda) - 2 ELSE 1, Len(ebitda))

\* the sum of max(0, -e) over these values
BurnTotal == SumSeq([i \in 1..Len(Recent) |-> IF Recent[i] < 0 THEN -Recent[i] ELSE 0])

\* C17, its first half: cash_runway returns infinity when the EBITDA slice
\* is empty or the mean burn over the slice is zero.
C17_InfiniteWithoutBurn ==
    pc = "cash_runway" /\ (Len(ebitda) = 0 \/ BurnTotal = 0) => out = Inf

\* out is amount divided by total / count
IsQuotient(amount, total, count) ==
    out.k = "num" /\ out.n * total = amount * count * out.d

IsGrossMargin(v, mo) ==
    LET rev == ActualsOf(mo, RevenueClass)
        cogs == ActualsOf(mo, CogsClass)
    IN  IF rev = 0 THEN v = NaN
        ELSE v.k = "num" /\ v.n * rev = (rev - cogs) * v.d

\* the trend of tool_gm_trend runs over months with a defined margin only
TrendOverDefinedMonths ==
    pc = "tool_gm_trend" /\ out.op = "gm_trend" /\ ~out.answer.nodata =>
        LET pts == out.chart.payload.points
        IN  /\ \A i \in 1..Len(pts) :
                  /\ ActualsOf(pts[i].month, RevenueClass) # 0
                  /\ IsGrossMargin(pts[i].v, pts[i].month)
            /\ \A i \in 1..(Len(pts) - 1) : Ordinal(pts[i].month) < Ordinal(pts[i + 1].month)
            /\ out.answer.start_m = pts[1].month /\ out.answer.start_v = pts[1].v
            /\ out.answer.end_m = pts[Len(pts)].month /\ out.answer.end_v = pts[Len(pts)].v
            /\ out.answer.delta_pp = PointsBetween(pts[Len(pts)].v, pts[1].v)

C19_ZeroDenominatorUndefined ==
    /\ pc = "revenue_month" /\ out.budget = Float(0) => out.delta_pct = NaN
    /\ pc = "gross_margin_pct_series" =>
          \A i \in 1..Len(out) : ActualsOf(out[i].month, RevenueClass) = 0 => out[i].v = NaN
    /\ pc = "tool_revenue_analysis" /\ out.answer.found /\ out.answer.budget_total = Float(0) =>
          out.answer.variance_pct = NaN
    /\ pc = "tool_financial_performance" /\ out.answer.found /\ out.answer.revenue = Float(0) =>
          out.answer.gross_margin_pct = NaN /\ out.answer.ebitda_margin_pct = NaN

\* the ledger with the amounts of the other entities' rows set to zero
OtherEntitiesZeroed ==
    [i \in 1..Len(ledger) |->
        IF ledger[i].entity = entity.name THEN ledger[i]
        ELSE [ledger[i] EXCEPT !.amount_usd = 0]]

\* the answer and chart are those of the same call with the other entities'
\* amounts zeroed: no such row has contributed
OwnRowsOnly(tool_name) ==
    out \in dispatch(tool_name, OtherEntitiesZeroed, cashdf, text, entity, today)

\* C20: a metric operation reached through dispatch with an entity
\* aggregates the rows of that entity only; the rows of other entities add
\* nothing to the figures of the answer or the chart payload.
C20_OnlyEntityRows ==
    entity.given /\ entity.name # "" =>
        /\ pc = "tool_revenue_vs_budget" => OwnRowsOnly("revenue_vs_budget")
        /\ pc = "tool_gm_trend" => OwnRowsOnly("gm_trend")
        /\ pc = "tool_cash_runway" => OwnRowsOnly("cash_runway")
        /\ pc = "tool_opex_breakdown" => OwnRowsOnly("opex_breakdown")
        /\ pc = "tool_revenue_analysis" => OwnRowsOnly("revenue_analysis")
        /\ pc = "tool_financial_performance" => OwnRowsOnly("financial_performance")

---------------------------------------------------------------------------
(* One metric through two tools *)

\* C21: the same metric has the same value whichever tool computes it on
\* the same tables (here with no entity given): the actual and budget
\* revenue tool_revenue_analysis reports for a target month are those of
\* revenue_month for that month, and the runway tool_financial_performance
\* reports is the one tool_cash_runway reports on the same cash rows.
C21_SameMetricWhicheverTool ==
    ~Truthy(entity) =>
        /\ pc = "tool_revenue_analysis" /\ DateTarget(text, today).period # NaT =>
              LET r == revenue_month(ledger, DateTarget(text, today).period, entity)
              IN  IF out.answer.found
                  THEN out.answer.actuals_total = r.actual /\ out.answer.budget_total = r.budget
                  ELSE r.actual = Float(0) /\ r.budget = Float(0)
        /\ pc = "tool_financial_performance" /\ out.answer.found /\ Len(cashdf) > 0 =>
              \E c \in tool_cash_runway(ledger, cashdf, text, entity) :
                  c.answer.runway = out.answer.runway

---------------------------------------------------------------------------
(* Every call: normalize, the resolver, the metrics and the tools *)

InitCalls == Init \/ InitParse \/ InitMetrics

NextCalls == Next \/ NextParse \/ NextMetrics

SpecCalls == InitCalls /\ [][NextCalls]_vars

\* C22: no call changes the tables it is handed: normalize leaves the four
\* input frames as they were, also when it raises; parse_months leaves the
\* available months, and every metric and every tool the canonical
\* financials and cash rows, also when the answer is a no-data answer.
C22_TablesUnchanged ==
    [][dfs' = dfs /\ am' = am /\ ledger' = ledger /\ cashdf' = cashdf]_vars

\* normalize has raised on frames that hold rows with months to coerce
C22_Witness ==
    /\ pc = "failed"
    /\ Len(dfs.actuals.rows) > 0
    /\ Len(dfs.fx) > 0
    /\ \E i \in 1..Len(dfs.actuals.rows) : dfs.actuals.rows[i].month = Txt(T_Jul_2025)

\* a day before the months of the ledgers, where Clock is one after them
Earlier == [year |-> 2025, month |-> 5, day |-> 30]

\* the result of the call is one the same call gives at the time t
SameAt(t) ==
    \A tool_name \in ToolNames :
        pc = Reached(tool_name) => out \in dispatch(tool_name, ledger, cashdf, text, entity, t)

\* C23: the result of every tool, tool_data_coverage included, is a function
\* of the tables, the question text and the entity only: the same call made
\* at another time returns the same answer and chart.
C23_ResultIndependentOfTime == SameAt(Earlier)

---------------------------------------------------------------------------
(* The date literal of a question and the rows it selects *)

\* the target each question carries, read off its text: a "Month Year"
\* phrase first, else an ISO literal with month 1..12, else a bare year
ExpectedTarget ==
    CASE text = Q_June_2025 -> [period |-> M06, year |-> 2025]
      [] text = Q_marketing_May_2025 -> [period |-> M05, year |-> 2025]
      [] text = Q_2025_05 -> [period |-> M05, year |-> 2025]
      [] text = Q_2025_13_2025_06 -> [period |-> M06, year |-> 2025]
      [] text = Q_Q2_2025 -> [period |-> NaT, year |-> 2025]
      [] text = Q_2025 -> [period |-> NaT, year |-> 2025]
      [] text = Q_Marketing_2025 -> [period |-> NaT, year |-> 2025]
      [] text = Q_sales_2024 -> [period |-> NaT, year |-> 2024]
      [] OTHER -> [period |-> NaT, year |-> 0]

\* the row lies in the target month, else in the target year, else anywhere
InExpected(r) ==
    IF ExpectedTarget.period # NaT THEN r.month = ExpectedTarget.period
    ELSE IF ExpectedTarget.year # 0 THEN r.month # NaT /\ r.month.y = ExpectedTarget.year
    ELSE TRUE

\* the figures of tool_revenue_analysis are those of the Revenue rows in
\* the target
RevenueInTarget ==
    pc = "tool_revenue_analysis" =>
        IF out.answer.found
        THEN /\ out.answer.actuals_total =
                  Float(Total(LAMBDA r : r.account_category = C_Revenue /\ r.source = "actuals" /\ InExpected(r)))
             /\ out.answer.budget_total =
                  Float(Total(LAMBDA r : r.account_category = C_Revenue /\ r.source = "budget" /\ InExpected(r)))
        ELSE \A i \in 1..Len(ledger) : ~(ledger[i].account_category = C_Revenue /\ InExpected(ledger[i]))

\* the total of the category form of tool_opex_breakdown is that of the
\* category's actuals rows in the target
CategoryInTarget ==
    pc = "tool_opex_breakdown" /\ SpecificCategory(lower(OrEmpty(text))) # NoCategory =>
        LET Mine(r) == /\ r.account_category = C_Opex \o Colon \o out.answer.category
                       /\ r.source = "actuals" /\ InExpected(r)
        IN  IF out.answer.found THEN out.answer.total = Float(Total(Mine))
            ELSE \A i \in 1..Len(ledger) : ~Mine(ledger[i])

\* the total of the month form of tool_opex_breakdown is that of the Opex
\* actuals rows in the target
BreakdownInTarget ==
    pc = "tool_opex_breakdown" /\ SpecificCategory(lower(OrEmpty(text))) = NoCategory /\ out # ToolRaised =>
        LET Mine(r) == /\ OpexClass(r.account_category) /\ OfEntity(r)
                       /\ r.source = "actuals" /\ InExpected(r)
        IN  IF out.answer.found THEN out.answer.total = Float(Total(Mine))
            ELSE \A i \in 1..Len(ledger) : ~Mine(ledger[i])

\* C24: tool_opex_breakdown and tool_revenue_analysis take from the text
\* the first applicable of a "Month Year" phrase, an ISO literal with month
\* 1..12 and a bare year, and aggregate the rows of that month or year
\* only; with no such literal they aggregate all months.
C24_RowsOfTheTargetAggregated ==
    /\ RevenueInTarget
    /\ CategoryInTarget
    /\ BreakdownInTarget

---------------------------------------------------------------------------
(* Selections without rows *)

\* the result is a no-data answer of one of the three tools
NoData ==
    /\ pc \in {"tool_opex_breakdown", "tool_revenue_analysis", "tool_gm_trend"}
    /\ out # ToolRaised
    /\ IF pc = "tool_gm_trend" THEN out.answer.nodata ELSE ~out.answer.found

\* what the no-data answer names of the selection: the category and the
\* month or year in the category form of tool_opex_breakdown, the month in
\* its month form, the month or year in tool_revenue_analysis unless the
\* dataset has no Revenue row at all, nothing in tool_gm_trend
Named ==
    IF pc = "tool_gm_trend" THEN {}
    ELSE IF pc = "tool_revenue_analysis"
         THEN IF out.answer.scope = "dataset" THEN {} ELSE {out.answer.scope}
    ELSE IF "category" \in DOMAIN out.answer
         THEN IF out.answer.scope = "dataset" THEN {"category"} ELSE {"category", out.answer.scope}
    ELSE {"month"}

FiguresHaveRows ==
    /\ pc = "tool_opex_breakdown" /\ out # ToolRaised /\ out.answer.found =>
          IF "category" \in DOMAIN out.answer
          THEN out.answer.months_with_data >= 1 /\ Len(out.chart.payload.data) >= 1
          ELSE Len(out.chart.payload.bars) >= 1
    /\ pc = "tool_revenue_analysis" /\ out.answer.found =>
          \E i \in 1..Len(ledger) : ledger[i].account_category = C_Revenue
    /\ pc = "tool_gm_trend" /\ out # ToolRaised /\ ~out.answer.nodata =>
          Len(out.chart.payload.points) >= 1

---------------------------------------------------------------------------
(* Calls that raise *)

\* C26 as stated: whatever the question and the dataset, a tool reached
\* through dispatch returns a result with an answer and does not raise.
C26_ToolsNeverRaise ==
    pc \in {Reached(n) : n \in ToolNames} => out # ToolRaised /\ "answer" \in DOMAIN out

---------------------------------------------------------------------------
(* The chart of a result *)

ChartKinds ==
    {"rev_vs_budget", "gm_trend", "opex_breakdown", "cash_trend",
     "category_trend", "revenue_trend", "dataset_overview"}

HasChart ==
    /\ pc \in {Reached(n) : n \in ToolNames}
    /\ out # ToolRaised
    /\ out.chart # NoChart

\* the points of a sequence are in ascending month order
Ascending(points) ==
    \A i, j \in 1..Len(points) : i < j => Ordinal(points[i].month) < Ordinal(points[j].month)

\* the payload has the shape of its kind; v of a gm_trend point is the
\* value written as gm_pct, and the budget of a revenue_trend point is
\* present or absent
PayloadOfKind(kind, p) ==
    CASE kind = "rev_vs_budget" -> DOMAIN p = {"actual", "budget", "month"}
      [] kind = "gm_trend" ->
            /\ DOMAIN p = {"points"}
            /\ \A i \in 1..Len(p.points) : DOMAIN p.points[i] = {"month", "v"}
            /\ Ascending(p.points)
      [] kind = "opex_breakdown" ->
            /\ DOMAIN p = {"month", "bars"}
            /\ \A i \in 1..Len(p.bars) : DOMAIN p.bars[i] = {"category", "amount"}
      [] kind = "category_trend" ->
            /\ DOMAIN p = {"category", "data"}
            /\ \A i \in 1..Len(p.data) : DOMAIN p.data[i] = {"month", "amount"}
            /\ Ascending(p.data)
      [] kind = "revenue_trend" ->
            /\ DOMAIN p = {"data"}
            /\ \A i \in 1..Len(p.data) :
                  /\ DOMAIN p.data[i] = {"month", "actual", "budget"}
                  /\ p.data[i].budget.some \in BOOLEAN
            /\ Ascending(p.data)
      [] kind \in {"cash_trend", "dataset_overview"} -> p = <<>>
      [] OTHER -> FALSE

\* C27: a chart of a tool result has one of the seven kinds and the payload
\* of that kind, with gm_trend points and trend data in ascending month
\* order.
C27_ChartShapes ==
    HasChart =>
        /\ out.chart.kind \in ChartKinds
        /\ PayloadOfKind(out.chart.kind, out.chart.payload)

\* a revenue trend over two months whose rows stand in the ledger in
\* descending month order
C27_Witness ==
    /\ HasChart
    /\ out.chart.kind = "revenue_trend"
    /\ Len(out.chart.payload.data) >= 2
    /\ \E i, j \in 1..Len(ledger) : i < j /\ Ordinal(ledger[j].month) < Ordinal(ledger[i].month)

---------------------------------------------------------------------------
(* agent/intents.py: the intent of a question *)

W_of == <<"o","f">>
W_data == <<"d","a","t","a">>
W_how_many_months == <<"h","o","w"," ","m","a","n","y"," ","m","o","n","t","h","s">>
W_what_months == <<"w","h","a","t"," ","m","o","n","t","h","s">>
W_which_months == <<"w","h","i","c","h"," ","m","o","n","t","h","s">>
W_revenue == <<"r","e","v","e","n","u","e">>
W_budget == <<"b","u","d","g","e","t">>
W_gross_margin == <<"g","r","o","s","s"," ","m","a","r","g","i","n">>
W_gm_pct == <<"g","m","%">>
W_gm_sp_pct == <<"g","m"," ","%">>
W_opex == <<"o","p","e","x">>
W_breakdown == <<"b","r","e","a","k","d","o","w","n">>
W_by_category == <<"b","y"," ","c","a","t","e","g","o","r","y">>
W_runway == <<"r","u","n","w","a","y">>

\* what \s matches among the characters of the questions
Whitespace == Spaces \cup {"\t", "\n"}

\* re.search(r"\bmonths?\s+of\s+data\b", t)
MonthsOfData(t) ==
    \E i \in 1..Len(t) :
        /\ BoundaryBefore(t, i)
        /\ MatchAt(t, i, W_month)
        /\ \E j \in {i + 5} \cup (IF i + 5 <= Len(t) /\ t[i + 5] = "s" THEN {i + 6} ELSE {}) :
           \E k \in (j + 1)..Len(t) :
              /\ \A a \in j..(k - 1) : t[a] \in Whitespace
              /\ MatchAt(t, k, W_of)
              /\ \E l \in (k + 3)..Len(t) :
                    /\ \A a \in (k + 2)..(l - 1) : t[a] \in Whitespace
                    /\ MatchAt(t, l, W_data)
                    /\ BoundaryAfter(t, l + 4)

\* re.search(r"\bhow many months\b", t)
HowManyMonths(t) ==
    \E i \in 1..Len(t) :
        /\ BoundaryBefore(t, i)
        /\ MatchAt(t, i, W_how_many_months)
        /\ BoundaryAfter(t, i + Len(W_how_many_months))

\* classify with the gross-margin rule ahead of the revenue rule
classify_gm_first(q) ==
    LET t == lower(OrEmpty(q))
    IN  IF MonthsOfData(t) \/ HowManyMonths(t) THEN "data_coverage"
        ELSE IF Contains(t, W_what_months) \/ Contains(t, W_which_months) THEN "data_coverage"
        ELSE IF Contains(t, W_gross_margin) \/ Contains(t, W_gm_pct) \/ Contains(t, W_gm_sp_pct) THEN "gm_trend"
        ELSE IF Contains(t, W_revenue) /\ Contains(t, W_budget) THEN "revenue_vs_budget"
        ELSE IF Contains(t, W_opex) /\ (Contains(t, W_breakdown) \/ Contains(t, W_by_category)) THEN "opex_breakdown"
        ELSE IF Contains(t, W_runway) THEN "cash_runway"
        ELSE "unknown"

classify(q) ==
    LET t == lower(OrEmpty(q))
    IN  IF MonthsOfData(t) \/ HowManyMonths(t) THEN "data_coverage"
        ELSE IF Contains(t, W_what_months) \/ Contains(t, W_which_months) THEN "data_coverage"
        ELSE IF Contains(t, W_revenue) /\ Contains(t, W_budget) THEN "revenue_vs_budget"
        ELSE IF Contains(t, W_gross_margin) \/ Contains(t, W_gm_pct) \/ Contains(t, W_gm_sp_pct) THEN "gm_trend"
        ELSE IF Contains(t, W_opex) /\ (Contains(t, W_breakdown) \/ Contains(t, W_by_category)) THEN "opex_breakdown"
        ELSE IF Contains(t, W_runway) THEN "cash_runway"
        ELSE "unknown"

(* The questions classified: the four of tests/test_intents.py, no text,    *)
(* the empty text, and up to MaxFragments fragments joined by a space.      *)

F_how_many_months == <<"h","o","w"," ","m","a","n","y"," ","m","o","n","t","h","s">>
F_show_many_months == <<"s","h","o","w"," ","m","a","n","y"," ","m","o","n","t","h","s">>
F_months_of_data == <<"m","o","n","t","h","s"," "," ","o","f"," ","d","a","t","a">>
F_month_of_database == <<"m","o","n","t","h"," ","o","f"," ","d","a","t","a","b","a","s","e">>
F_Which_months == <<"W","h","i","c","h"," ","m","o","n","t","h","s">>
F_what_months == <<"w","h","a","t"," ","m","o","n","t","h","s">>
F_revenue == <<"r","e","v","e","n","u","e">>
F_Revenue_vs_budget == <<"R","e","v","e","n","u","e"," ","v","s"," ","b","u","d","g","e","t">>
F_Budget == <<"B","u","d","g","e","t">>
F_gross_margin == <<"G","r","o","s","s"," ","m","a","r","g","i","n">>
F_GM_pct == <<"G","M","%">>
F_gm_trend == <<"g","m"," ","t","r","e","n","d">>
F_opex == <<"O","p","e","x">>
F_breakdown == <<"b","r","e","a","k","d","o","w","n">>
F_Break_down == <<"B","r","e","a","k"," ","d","o","w","n">>
F_by_category == <<"b","y"," ","c","a","t","e","g","o","r","y">>
F_runway == <<"r","u","n","w","a","y">>
Q_revenue_vs_budget == Txt(<<"W","h","a","t"," ","w","a","s"," ","J","u","n","e"," ","2","0","2","5"," ","r","e","v","e","n","u","e"," ","v","s"," ","b","u","d","g","e","t","?">>)
Q_gross_margin_trend == Txt(<<"S","h","o","w"," ","g","r","o","s","s"," ","m","a","r","g","i","n"," ","%"," ","t","r","e","n","d"," ","f","o","r"," ","t","h","e"," ","l","a","s","t"," ","3"," ","m","o","n","t","h","s">>)
Q_break_down_opex == Txt(<<"B","r","e","a","k"," ","d","o","w","n"," ","O","p","e","x"," ","b","y"," ","c","a","t","e","g","o","r","y"," ","f","o","r"," ","J","u","n","e">>)
Q_cash_runway == Txt(<<"W","h","a","t"," ","i","s"," ","o","u","r"," ","c","a","s","h"," ","r","u","n","w","a","y"," ","r","i","g","h","t"," ","n","o","w","?">>)

Fragments == {F_Revenue_vs_budget, F_how_many_months, F_show_many_months, F_months_of_data, F_month_of_database, F_Which_months, F_what_months, F_revenue, F_Budget, F_gross_margin, F_GM_pct, F_gm_trend, F_opex, F_breakdown, F_Break_down, F_by_category, F_runway}

MaxFragments == 2



IntentQuestions ==
    {Missing, Q_revenue_vs_budget, Q_gross_margin_trend, Q_break_down_opex, Q_cash_runway}
        \cup {Txt(Join(fs)) : fs \in SeqsUpTo(Fragments, MaxFragments)}

InitClassify ==
    /\ NoMetrics
    /\ pc = "question"
    /\ today = Clock
    /\ text \in IntentQuestions
    /\ am = <<>>
    /\ sel = NoSel
    /\ dfs = NoInputs
    /\ norm = NoNorm
    /\ months = <<>>
    /\ x = Missing
    /\ period = NaT

Classify ==
    /\ pc = "question"
    /\ out' = [op |-> "classify", intent |-> classify(text)]
    /\ pc' = "classified"
    /\ UNCHANGED <<today, dfs, norm, months, x, period, text, am, sel>>
    /\ UNCHANGED <<ledger, cashdf, entity, msel, ebitda>>

NextClassify == Classify

SpecClassify == InitClassify /\ [][NextClassify]_vars

Intents == {"data_coverage", "revenue_vs_budget", "gm_trend", "opex_breakdown", "cash_runway", "unknown"}

\* what a lowered question asks about, in the order the intents are checked
Asks(t) ==
    << MonthsOfData(t) \/ HowManyMonths(t) \/ Contains(t, W_what_months) \/ Contains(t, W_which_months),
       Contains(t, W_revenue) /\ Contains(t, W_budget),
       Contains(t, W_gross_margin) \/ Contains(t, W_gm_pct) \/ Contains(t, W_gm_sp_pct),
       Contains(t, W_opex) /\ (Contains(t, W_breakdown) \/ Contains(t, W_by_category)),
       Contains(t, W_runway) >>

IntentOrder == <<"data_coverage", "revenue_vs_budget", "gm_trend", "opex_breakdown", "cash_runway">>

\* C28: classify gives every question exactly one of the six intents, the
\* first in the order data_coverage, revenue_vs_budget, gm_trend,
\* opex_breakdown, cash_runway that the question asks about and unknown
\* when it asks about none; the four questions of the test suite get
\* revenue_vs_budget, gm_trend, opex_breakdown and cash_runway.
C28_ClassifyInOrder ==
    pc = "classified" =>
        LET asks == Asks(lower(OrEmpty(text)))
        IN  /\ out.intent \in Intents
            /\ \A i \in 1..Len(IntentOrder) :
                  asks[i] /\ (\A j \in 1..(i - 1) : ~asks[j]) => out.intent = IntentOrder[i]
            /\ (\A i \in 1..Len(IntentOrder) : ~asks[i]) => out.intent = "unknown"
            /\ text = Q_revenue_vs_budget => out.intent = "revenue_vs_budget"
            /\ text = Q_gross_margin_trend => out.intent = "gm_trend"
            /\ text = Q_break_down_opex => out.intent = "opex_breakdown"
            /\ text = Q_cash_runway => out.intent = "cash_runway"

\* a question about gross margin and about revenue against budget
C28_Witness ==
    /\ pc = "classified"
    /\ text = Txt(Join(<<F_gross_margin, F_Revenue_vs_budget>>))
    /\ out.intent = "revenue_vs_budget"

---------------------------------------------------------------------------
(* The month a tool computes for *)

M03 == Period(2025, 3)
M04 == Period(2025, 4)

Q_last_2_months == Txt(<<"l","a","s","t"," ","2"," ","m","o","n","t","h","s">>)
Q_last_0_months == Txt(<<"l","a","s","t"," ","0"," ","m","o","n","t","h","s">>)
Q_Q1_2025 == Txt(<<"Q","1"," ","2","0","2","5">>)

\* the rows of a ledger over four months, in the order they keep in it
FallbackRows == <<
    FinRow(M06, "ParentCo", C_Revenue, 1200, "actuals"),
    FinRow(M06, "ParentCo", C_OpexSales, 300, "actuals"),
    FinRow(M05, "EMEA", C_Revenue, 1000, "actuals"),
    FinRow(M05, "ParentCo", C_COGS, 400, "actuals"),
    FinRow(M04, "ParentCo", C_Revenue, 900, "actuals"),
    FinRow(M04, "ParentCo", C_OpexMarketing, 200, "actuals"),
    FinRow(M03, "ParentCo", C_Revenue, 800, "actuals"),
    FinRow(M03, "ParentCo", C_Revenue, 700, "budget") >>

FallbackLedgers ==
    {SelectSeq([i \in 1..Len(FallbackRows) |-> [row |-> FallbackRows[i], at |-> i]],
               LAMBDA r : r.at \in keep) : keep \in SUBSET (1..Len(FallbackRows))}

FallbackQuestions == {Missing, Q_last_0_months, Q_last_2_months, Q_Q2_2025, Q_Q1_2025, Q_2025, Q_June_2025}

InitFallback ==
    /\ today = Clock
    /\ dfs = NoInputs
    /\ norm = NoNorm
    /\ months = <<>>
    /\ x = Missing
    /\ period = NaT
    /\ am = <<>>
    /\ sel = NoSel
    /\ \E l \in FallbackLedgers : ledger = [i \in 1..Len(l) |-> l[i].row]
    /\ entity \in {NoEntity, Entity("ParentCo")}
    /\ ebitda = <<>>
    /\ out = NoOut
    /\ pc = "asked"
    /\ msel = <<>>
    /\ text \in FallbackQuestions
    /\ cashdf \in ToolCash \ {<<>>}

NextFallback == Dispatch

SpecFallback == InitFallback /\ [][NextFallback]_vars

\* the months of the ledger
AvailableMonths == {ledger[i].month : i \in 1..Len(ledger)} \ {NaT}

LatestAvailable == CHOOSE m \in AvailableMonths : \A n \in AvailableMonths : Ordinal(n) <= Ordinal(m)

Last3Available ==
    {m \in AvailableMonths : Cardinality({n \in AvailableMonths : Ordinal(n) > Ordinal(m)}) < 3}

\* what parse_months makes of the question
Resolved == parse_months(text, get_available_months(ledger), today)

\* the month the two single-month tools are to report
TheMonth ==
    IF NoneOrEmpty(Resolved) THEN LatestAvailable ELSE Resolved.months[Len(Resolved.months)]

\* C29: with a ledger that has months and a question parse_months does not
\* raise on, tool_revenue_vs_budget and the month form of
\* tool_opex_breakdown compute for the latest available month when
\* parse_months returns None or no month, and for the last month of the
\* resolved set otherwise, which is its latest; the answer and the chart
\* payload name that month and the figures are those of that month.
\* tool_gm_trend has a point for each of the last three available months
\* with revenue when parse_months returns None or no month, and only for
\* months of the resolved set otherwise.
C29_FallbackMonths ==
    AvailableMonths # {} /\ Resolved.kind # "raise" =>
        /\ ~NoneOrEmpty(Resolved) =>
              \A i \in 1..Len(Resolved.months) : Ordinal(Resolved.months[i]) <= Ordinal(TheMonth)
        /\ pc = "tool_revenue_vs_budget" =>
              /\ out.answer.month = TheMonth
              /\ out.chart.payload.month = TheMonth
              /\ out.answer.actual = Float(RevenueOf(TheMonth, "actuals"))
              /\ out.answer.budget = Float(RevenueOf(TheMonth, "budget"))
              /\ out.chart.payload.actual = out.answer.actual
              /\ out.chart.payload.budget = out.answer.budget
        /\ pc = "tool_opex_breakdown" /\ SpecificCategory(lower(OrEmpty(text))) = NoCategory =>
              /\ out.answer.month = TheMonth
              /\ out.answer.found <=> ActualsOf(TheMonth, OpexClass) # 0
              /\ out.answer.found =>
                    /\ out.chart.payload.month = TheMonth
                    /\ out.answer.total = Float(ActualsOf(TheMonth, OpexClass))
        /\ pc = "tool_gm_trend" =>
              LET named == IF out.answer.nodata THEN {}
                           ELSE {out.chart.payload.points[i].month :
                                    i \in 1..Len(out.chart.payload.points)}
              IN  IF NoneOrEmpty(Resolved)
                  THEN named = {m \in Last3Available : ActualsOf(m, RevenueClass) # 0}
                  ELSE named = {m \in Range(Resolved.months) : ActualsOf(m, RevenueClass) # 0}

\* no question, four months in the ledger: tool_gm_trend leaves March out
C29_Witness ==
    /\ pc = "tool_gm_trend"
    /\ text = Missing
    /\ Cardinality(AvailableMonths) = 4
    /\ ~out.answer.nodata
    /\ Len(out.chart.payload.points) = 3

---------------------------------------------------------------------------
(* agent/agent.py: one run of the agent *)

W_total == <<"t","o","t","a","l">>
W_overall == <<"o","v","e","r","a","l","l">>
W_how_much == <<"h","o","w"," ","m","u","c","h">>
W_analysis == <<"a","n","a","l","y","s","i","s">>
W_performance == <<"p","e","r","f","o","r","m","a","n","c","e">>
W_margin == <<"m","a","r","g","i","n">>
W_spend == <<"s","p","e","n","d">>
W_spent == <<"s","p","e","n","t">>
W_cost == <<"c","o","s","t">>
W_expense == <<"e","x","p","e","n","s","e">>
W_dashboard == <<"d","a","s","h","b","o","a","r","d">>
W_summary == <<"s","u","m","m","a","r","y">>
W_overview == <<"o","v","e","r","v","i","e","w">>
W_financial == <<"f","i","n","a","n","c","i","a","l">>
W_business == <<"b","u","s","i","n","e","s","s">>
W_company == <<"c","o","m","p","a","n","y">>
W_cash == <<"c","a","s","h">>
W_burn == <<"b","u","r","n">>
W_months_of_data == <<"m","o","n","t","h","s"," ","o","f"," ","d","a","t","a">>
W_dataset == <<"d","a","t","a","s","e","t">>

_heuristic_tool(question) ==
    LET q == lower(OrEmpty(question))
        In(w) == Contains(q, w)
    IN  IF In(W_revenue) /\ (In(W_total) \/ In(W_overall) \/ In(W_how_much) \/ In(W_analysis) \/ In(W_performance))
        THEN "revenue_analysis"
        ELSE IF In(W_revenue) /\ In(W_budget) THEN "revenue_vs_budget"
        ELSE IF In(W_gross_margin) \/ In(W_gm_pct) \/ In(W_gm_sp_pct) \/ In(W_margin) THEN "gm_trend"
        ELSE IF /\ In(W_marketing) \/ In(W_sales) \/ In(W_rnd) \/ In(W_admin) \/ In(W_opex)
                /\ In(W_spend) \/ In(W_spent) \/ In(W_cost) \/ In(W_expense) \/ In(W_breakdown) \/ In(W_by_category)
        THEN "opex_breakdown"
        ELSE IF /\ In(W_performance) \/ In(W_dashboard) \/ In(W_summary) \/ In(W_overview)
                /\ In(W_financial) \/ In(W_business) \/ In(W_company)
        THEN "financial_performance"
        ELSE IF In(W_runway) \/ (In(W_cash) /\ (In(W_runway) \/ In(W_burn))) THEN "cash_runway"
        ELSE IF In(W_how_many_months) \/ In(W_months_of_data) \/ In(W_which_months) \/ In(W_what_months) \/ In(W_dataset)
        THEN "data_coverage"
        ELSE IF In(W_spend) \/ In(W_spent) \/ In(W_cost) \/ In(W_expense) THEN "opex_breakdown"
        ELSE IF In(W_revenue) THEN "revenue_analysis"
        ELSE "data_coverage"

(* A run of run_agent: the context is retrieved, the model is asked for a   *)
(* tool call, the tool is dispatched.  retrieve and responses.create call   *)
(* a remote service, and either can raise; what the model answers is its    *)
(* own choice: no tool call, or a tool call with a name and arguments.  The *)
(* arguments carry an entity or none (a month_hint is left out: the hint is *)
(* the question).                                                           *)

H_total_revenue == Txt(<<"T","o","t","a","l"," ","r","e","v","e","n","u","e"," ","i","n"," ","2","0","2","5">>)
H_marketing_spend == Txt(<<"M","a","r","k","e","t","i","n","g"," ","s","p","e","n","d">>)
H_company_overview == Txt(<<"C","o","m","p","a","n","y"," ","o","v","e","r","v","i","e","w">>)
H_cost == Txt(<<"W","h","a","t"," ","d","i","d"," ","i","t"," ","c","o","s","t","?">>)
H_revenue == Txt(<<"R","e","v","e","n","u","e"," ","i","n"," ","J","u","n","e"," ","2","0","2","5">>)
H_dataset == Txt(<<"D","e","s","c","r","i","b","e"," ","t","h","e"," ","d","a","t","a","s","e","t">>)
H_Marketing_2025_margin == Txt(<<"M","a","r","k","e","t","i","n","g"," ","2","0","2","5"," ","m","a","r","g","i","n">>)
H_hello == Txt(<<"h","e","l","l","o">>)

AgentQuestions ==
    {Missing, Txt(<<>>), H_total_revenue, H_marketing_spend, H_company_overview, H_cost,
     H_revenue, H_dataset, H_Marketing_2025_margin, H_hello,
     Q_revenue_vs_budget, Q_gross_margin_trend, Q_break_down_opex, Q_cash_runway,
     Txt(F_how_many_months)}

AgentLedgers ==
    {<<>>,
     <<FinRows[1], FinRows[2], FinRows[3]>>,
     <<FinRows[1], FinRows[8], FinRows[10]>>}

\* the tool calls a response can carry: a known name, a name dispatch does
\* not know, or a call without a name
ToolUses ==
    [name : ToolNames \cup {"forecast", ""}, entity : {NoEntity, Entity("EMEA")}]

NoToolUse == [name |-> "", entity |-> NoEntity]

\* _extract_tool_use: the name and args of the response's tool call, or
\* (None, {})
_extract_tool_use(resp) == IF resp.tool_use THEN resp.call ELSE NoToolUse

Responses ==
    {[tool_use |-> FALSE, call |-> NoToolUse]} \cup {[tool_use |-> TRUE, call |-> c] : c \in ToolUses}

NoReturn == [returned |-> FALSE]

Run(name, args, calls, note, ret) ==
    [op |-> "run_agent", name |-> name, args |-> args, calls |-> calls, note |-> note, ret |-> ret]

InitAgent ==
    /\ today = Clock
    /\ dfs = NoInputs
    /\ norm = NoNorm
    /\ months = <<>>
    /\ x = Missing
    /\ period = NaT
    /\ am = <<>>
    /\ sel = NoSel
    /\ ledger \in AgentLedgers
    /\ cashdf \in ToolCash
    /\ entity = NoEntity
    /\ msel = <<>>
    /\ ebitda = <<>>
    /\ text \in AgentQuestions
    /\ pc = "prompted"
    /\ out = Run("", NoEntity, <<>>, FALSE, NoReturn)

AgentStep(to, result) ==
    /\ pc' = to
    /\ out' = result
    /\ UNCHANGED <<today, dfs, norm, months, x, period, text, am, sel>>
    /\ UNCHANGED <<ledger, cashdf, entity, msel, ebitda>>

\* context = retrieve(kb, question, k=3), outside the try
Retrieve ==
    /\ pc = "prompted"
    /\ \/ AgentStep("retrieved", out)
       \/ AgentStep("raised", out)

\* client.responses.create in the try, then the choice of the tool
CreateResponse ==
    /\ pc = "retrieved"
    /\ \/ AgentStep("chosen", Run(_heuristic_tool(text), NoEntity, <<>>, TRUE, NoReturn))
       \/ \E resp \in Responses :
             LET call == _extract_tool_use(resp)
                 name == IF call.name = "" THEN _heuristic_tool(text) ELSE call.name
             IN  AgentStep("chosen", Run(name, call.entity, <<>>, FALSE, NoReturn))

\* result = dispatch(name, args, fin, cash, question, entity=None) and the
\* return
DispatchTool ==
    /\ pc = "chosen"
    /\ \E result \in dispatch(out.name, ledger, cashdf, text,
                               IF Truthy(out.args) THEN out.args ELSE entity, today) :
          LET calls == Append(out.calls, out.name)
          IN  IF result = ToolRaised
              THEN AgentStep("raised", Run(out.name, out.args, calls, out.note, NoReturn))
              ELSE AgentStep("returned",
                             Run(out.name, out.args, calls, out.note,
                                 [returned |-> TRUE, tool |-> out.name, result |-> result]))

NextAgent ==
    \/ Retrieve
    \/ CreateResponse
    \/ DispatchTool

SpecAgent == InitAgent /\ [][NextAgent]_vars

\* the run has ended: run_agent returned or raised
Ended == pc \in {"returned", "raised"}

\* C30 as stated: a run of run_agent ends with exactly one dispatch call,
\* to one of the seven known tools, and returns a dict with the tool name
\* and its result.
C30_OneDispatchToAKnownTool ==
    Ended =>
        /\ Len(out.calls) = 1
        /\ out.calls[1] \in ToolNames
        /\ out.ret # NoReturn
        /\ out.ret.tool = out.calls[1]
        /\ "result" \in DOMAIN out.ret

====
